---- MODULE Spec2Model ----
(***************************************************************************)
(* Unit-price normalisation of the competitor price scraper                *)
(* (src/unnamed/part_000): UNIT_MAPPINGS, extractPackMultiplier and        *)
(* computeUnitPrice.                                                       *)
(*                                                                         *)
(* A product name is a sequence of one-character strings, so the regular   *)
(* expressions of the source are evaluated character by character.         *)
(* A JavaScript number is an exact rational [nan, num, den] (den > 0);     *)
(* money is an integer number of ten-thousandths of a dollar.              *)
(***************************************************************************)
EXTENDS Integers, Sequences, FiniteSets, TLC

(* ------------------------------------------------------------------ *)
(* Characters and strings                                               *)
(* ------------------------------------------------------------------ *)

UpperCase ==
  <<"A", "B", "C", "D", "E", "F", "G", "H", "I", "J", "K", "L", "M",
    "N", "O", "P", "Q", "R", "S", "T", "U", "V", "W", "X", "Y", "Z">>

LowerCase ==
  <<"a", "b", "c", "d", "e", "f", "g", "h", "i", "j", "k", "l", "m",
    "n", "o", "p", "q", "r", "s", "t", "u", "v", "w", "x", "y", "z">>

DigitChars == <<"0", "1", "2", "3", "4", "5", "6", "7", "8", "9">>

\* String.prototype.toLowerCase on one character
Lower(c) ==
  IF \E i \in DOMAIN UpperCase : UpperCase[i] = c
  THEN LowerCase[CHOOSE i \in DOMAIN UpperCase : UpperCase[i] = c]
  ELSE c

toLowerCase(s) == [i \in 1..Len(s) |-> Lower(s[i])]

\* String.prototype.toUpperCase on one character
Upper(c) ==
  IF \E i \in DOMAIN LowerCase : LowerCase[i] = c
  THEN UpperCase[CHOOSE i \in DOMAIN LowerCase : LowerCase[i] = c]
  ELSE c

toUpperCase(s) == [i \in 1..Len(s) |-> Upper(s[i])]

\* \d
IsDigit(c) == \E i \in DOMAIN DigitChars : DigitChars[i] = c

DigitVal(c) == (CHOOSE i \in DOMAIN DigitChars : DigitChars[i] = c) - 1

\* \s
IsSpace(c) == c \in {" ", "\t", "\n", "\r"}

\* \w
IsWordChar(c) ==
  \/ IsDigit(c)
  \/ c = "_"
  \/ \E i \in DOMAIN LowerCase : LowerCase[i] = Lower(c)

\* two characters are equal under the regex flag i
EqI(a, b) == Lower(a) = Lower(b)

\* the literal w matches s at position i (flag i)
LitAt(s, i, w) ==
  /\ i >= 1
  /\ i + Len(w) - 1 <= Len(s)
  /\ \A k \in 1..Len(w) : EqI(s[i + k - 1], w[k])

\* String.prototype.includes (case-sensitive)
Includes(s, w) ==
  \E i \in 1..(Len(s) - Len(w) + 1) : \A k \in 1..Len(w) : s[i + k - 1] = w[k]

\* \s* taken greedily from position i: the position after the white space
RECURSIVE SkipWs(_, _)
SkipWs(s, i) ==
  IF i <= Len(s) /\ IsSpace(s[i]) THEN SkipWs(s, i + 1) ELSE i

\* the positions \s* can stop at when started at i (greedy first)
WsStops(s, i) == i..SkipWs(s, i)

Min(S) == CHOOSE x \in S : \A y \in S : x <= y

Max(S) == CHOOSE x \in S : \A y \in S : x >= y

(* ------------------------------------------------------------------ *)
(* Numbers                                                            *)
(* ------------------------------------------------------------------ *)

NaN == [nan |-> TRUE, num |-> 0, den |-> 1]

Num(n, d) == [nan |-> FALSE, num |-> n, den |-> d]

RECURSIVE Pow10(_)
Pow10(k) == IF k = 0 THEN 1 ELSE 10 * Pow10(k - 1)

\* value of a string of decimal digits
RECURSIVE DigitsValue(_)
DigitsValue(t) ==
  IF Len(t) = 0 THEN 0
  ELSE 10 * DigitsValue(SubSeq(t, 1, Len(t) - 1)) + DigitVal(t[Len(t)])

\* length of the run of digits of t that starts at position i
DigitRun(t, i) ==
  IF i > Len(t) THEN 0
  ELSE LET stop == CHOOSE j \in i..(Len(t) + 1) :
                     /\ j = Len(t) + 1 \/ ~IsDigit(t[j])
                     /\ \A x \in i..(j - 1) : IsDigit(t[x])
       IN  stop - i

\* length of the run of "0" of t that starts at position i
RECURSIVE ZeroRun(_, _)
ZeroRun(t, i) ==
  IF i <= Len(t) /\ t[i] = "0" THEN 1 + ZeroRun(t, i + 1) ELSE 0

\* Infinity: the quotient 1 / 0
Infinity == [nan |-> FALSE, num |-> 1, den |-> 0]

IsFinite(a) == ~a.nan /\ a.den # 0

\* the integer written by the first il digits of t is beyond the binary64
\* range: it has 310 significant digits or more, so it is at least 10^309
\* and parseInt and parseFloat give Infinity
Overflows(t, il) == il - ZeroRun(t, 1) >= 310

\* parseInt(t) for a capture (\d+)
parseInt(t) ==
  LET n == DigitRun(t, 1)
  IN  IF n = 0 THEN NaN
      ELSE IF Overflows(t, n) THEN Infinity
      ELSE Num(DigitsValue(SubSeq(t, 1, n)), 1)

\* parseFloat(t) for a capture (\d+) or ([\d.]+): the longest prefix
\* digits [ "." digits ] holding at least one digit, NaN when there is none
parseFloat(t) ==
  LET il == DigitRun(t, 1)
      dot == il + 1 <= Len(t) /\ t[il + 1] = "."
      fl == IF dot THEN DigitRun(t, il + 2) ELSE 0
      ip == DigitsValue(SubSeq(t, 1, il))
      fp == DigitsValue(SubSeq(t, il + 2, il + 1 + fl))
  IN  IF il + fl = 0 THEN NaN
      ELSE IF Overflows(t, il) THEN Infinity
      ELSE Num(ip * Pow10(fl) + fp, Pow10(fl))

\* a * (n / d)
Times(a, n, d) ==
  IF a.nan THEN NaN
  ELSE IF a.den = 0 THEN Infinity
  ELSE Num(a.num * n, a.den * d)

\* JavaScript truthiness of a number: not NaN and not 0
Truthy(a) == ~a.nan /\ a.num # 0

\* a <= 0 (false for NaN)
LeqZero(a) == ~a.nan /\ a.num <= 0

(* ------------------------------------------------------------------ *)
(* UNIT_MAPPINGS                                                      *)
(*                                                                    *)
(* One record per entry, in insertion order (the order Object.entries *)
(* yields).  keyword is the source text of the key, which is compiled *)
(* with new RegExp(keyword, 'i').  The quantity pattern               *)
(*     /(CLASS+) SEP (?:ALT|ALT|...)/i                                *)
(* is held by its parts: cls is "d" for (\d+) and "dd" for ([\d.]+);  *)
(* sep is "ws" for \s* and "dash" for [- ]?; each alternative is its  *)
(* literal pieces, separated by \s*, and whether a final s? follows.   *)
(* multiplier names the entry's multiplier callback.                  *)
(* ------------------------------------------------------------------ *)

UNIT_MAPPINGS ==
  <<
  [keyword |-> <<"c", "a", "t", " ", "f", "o", "o", "d", ".", "*", "c", "a", "n", "s">>,
   unit |-> "can", cls |-> "d", sep |-> "ws", multiplier |-> "none",
   alts |-> <<[pieces |-> <<<<"c", "a", "n">>>>, optS |-> TRUE]>>],
  [keyword |-> <<"c", "a", "t", " ", "f", "o", "o", "d", ".", "*", "l", "b">>,
   unit |-> "lb", cls |-> "dd", sep |-> "ws", multiplier |-> "none",
   alts |-> <<[pieces |-> <<<<"l", "b">>>>, optS |-> TRUE]>>],
  [keyword |-> <<"d", "o", "g", " ", "f", "o", "o", "d", ".", "*", "l", "b">>,
   unit |-> "lb", cls |-> "dd", sep |-> "ws", multiplier |-> "none",
   alts |-> <<[pieces |-> <<<<"l", "b">>>>, optS |-> TRUE]>>],
  [keyword |-> <<"c", "a", "t", " ", "l", "i", "t", "t", "e", "r">>,
   unit |-> "lb", cls |-> "d", sep |-> "ws", multiplier |-> "none",
   alts |-> <<[pieces |-> <<<<"l", "b">>>>, optS |-> TRUE]>>],
  [keyword |-> <<"c", "o", "f", "f", "e", "e">>,
   unit |-> "oz", cls |-> "dd", sep |-> "ws", multiplier |-> "coffee",
   alts |-> <<[pieces |-> <<<<"l", "b">>>>, optS |-> TRUE], [pieces |-> <<<<"o", "z">>>>, optS |-> FALSE], [pieces |-> <<<<"k", "g">>>>, optS |-> FALSE]>>],
  [keyword |-> <<"a", "l", "m", "o", "n", "d", "s">>,
   unit |-> "oz", cls |-> "d", sep |-> "ws", multiplier |-> "none",
   alts |-> <<[pieces |-> <<<<"o", "z">>>>, optS |-> FALSE]>>],
  [keyword |-> <<"s", "e", "e", "d", "s">>,
   unit |-> "oz", cls |-> "dd", sep |-> "ws", multiplier |-> "seeds",
   alts |-> <<[pieces |-> <<<<"l", "b">>>>, optS |-> TRUE], [pieces |-> <<<<"o", "z">>>>, optS |-> FALSE]>>],
  [keyword |-> <<"b", "a", "t", "t", "e", "r", "i", "e", "s">>,
   unit |-> "battery", cls |-> "d", sep |-> "ws", multiplier |-> "none",
   alts |-> <<[pieces |-> <<<<"p", "a", "c", "k">>>>, optS |-> FALSE], [pieces |-> <<<<"c", "o", "u", "n", "t">>>>, optS |-> FALSE], [pieces |-> <<<<"c", "t">>>>, optS |-> FALSE]>>],
  [keyword |-> <<"t", "a", "b", "l", "e", "t", "s">>,
   unit |-> "tablet", cls |-> "d", sep |-> "ws", multiplier |-> "none",
   alts |-> <<[pieces |-> <<<<"t", "a", "b", "l", "e", "t">>>>, optS |-> TRUE]>>],
  [keyword |-> <<"s", "o", "f", "t", "g", "e", "l", "s">>,
   unit |-> "softgel", cls |-> "d", sep |-> "ws", multiplier |-> "none",
   alts |-> <<[pieces |-> <<<<"s", "o", "f", "t", "g", "e", "l">>>>, optS |-> TRUE]>>],
  [keyword |-> <<"b", "a", "r", "s">>,
   unit |-> "bar", cls |-> "d", sep |-> "ws", multiplier |-> "none",
   alts |-> <<[pieces |-> <<<<"b", "a", "r">>>>, optS |-> TRUE]>>],
  [keyword |-> <<"d", "e", "o", "d", "o", "r", "a", "n", "t", ".", "*", "p", "a", "c", "k">>,
   unit |-> "stick", cls |-> "d", sep |-> "dash", multiplier |-> "none",
   alts |-> <<[pieces |-> <<<<"p", "a", "c", "k">>>>, optS |-> FALSE]>>],
  [keyword |-> <<"d", "r", "y", "e", "r", " ", "s", "h", "e", "e", "t", "s">>,
   unit |-> "sheet", cls |-> "d", sep |-> "ws", multiplier |-> "none",
   alts |-> <<[pieces |-> <<<<"c", "t">>>>, optS |-> FALSE], [pieces |-> <<<<"c", "o", "u", "n", "t">>>>, optS |-> FALSE], [pieces |-> <<<<"s", "h", "e", "e", "t">>>>, optS |-> TRUE]>>],
  [keyword |-> <<"w", "i", "p", "e", "s", ".", "*", "p", "a", "c", "k">>,
   unit |-> "pack", cls |-> "d", sep |-> "dash", multiplier |-> "none",
   alts |-> <<[pieces |-> <<<<"p", "a", "c", "k">>>>, optS |-> FALSE]>>],
  [keyword |-> <<"t", "o", "o", "t", "h", "p", "a", "s", "t", "e", ".", "*", "p", "a", "c", "k">>,
   unit |-> "tube", cls |-> "d", sep |-> "dash", multiplier |-> "none",
   alts |-> <<[pieces |-> <<<<"p", "a", "c", "k">>>>, optS |-> FALSE]>>],
  [keyword |-> <<"f", "l", "o", "s", "s", ".", "*", "p", "a", "c", "k">>,
   unit |-> "pack", cls |-> "d", sep |-> "dash", multiplier |-> "none",
   alts |-> <<[pieces |-> <<<<"p", "a", "c", "k">>>>, optS |-> FALSE]>>],
  [keyword |-> <<"r", "a", "z", "o", "r", ".", "*", "r", "e", "f", "i", "l", "l", "s">>,
   unit |-> "cartridge", cls |-> "d", sep |-> "ws", multiplier |-> "none",
   alts |-> <<[pieces |-> <<<<"c", "o", "u", "n", "t">>>>, optS |-> FALSE], [pieces |-> <<<<"c", "t">>>>, optS |-> FALSE], [pieces |-> <<<<"r", "e", "f", "i", "l", "l">>>>, optS |-> TRUE]>>],
  [keyword |-> <<"c", "o", "n", "t", "a", "c", "t", " ", "s", "o", "l", "u", "t", "i", "o", "n">>,
   unit |-> "oz", cls |-> "dd", sep |-> "ws", multiplier |-> "none",
   alts |-> <<[pieces |-> <<<<"o", "z">>>>, optS |-> FALSE]>>],
  [keyword |-> <<"s", "o", "a", "p", ".", "*", "r", "e", "f", "i", "l", "l">>,
   unit |-> "refill", cls |-> "d", sep |-> "dash", multiplier |-> "none",
   alts |-> <<[pieces |-> <<<<"p", "a", "c", "k">>>>, optS |-> FALSE]>>],
  [keyword |-> <<"w", "a", "t", "e", "r", " ", "f", "i", "l", "t", "e", "r">>,
   unit |-> "filter", cls |-> "d", sep |-> "ws", multiplier |-> "none",
   alts |-> <<[pieces |-> <<<<"p", "a", "c", "k">>>>, optS |-> FALSE], [pieces |-> <<<<"f", "i", "l", "t", "e", "r">>>>, optS |-> TRUE]>>],
  [keyword |-> <<"t", "a", "p", "e", ".", "*", "r", "o", "l", "l", "s">>,
   unit |-> "roll", cls |-> "d", sep |-> "ws", multiplier |-> "none",
   alts |-> <<[pieces |-> <<<<"r", "o", "l", "l">>>>, optS |-> TRUE]>>],
  [keyword |-> <<"t", "a", "h", "i", "n", "i">>,
   unit |-> "pack", cls |-> "d", sep |-> "ws", multiplier |-> "none",
   alts |-> <<[pieces |-> <<<<"p", "a", "c", "k">>>>, optS |-> FALSE]>>],
  [keyword |-> <<"p", "l", "a", "s", "t", "i", "c", " ", "w", "r", "a", "p">>,
   unit |-> "sq ft", cls |-> "d", sep |-> "ws", multiplier |-> "none",
   alts |-> <<[pieces |-> <<<<"s", "q">>, <<"f", "t">>>>, optS |-> FALSE]>>],
  [keyword |-> <<"c", "h", "o", "c", "o", "l", "a", "t", "e", ".", "*", "a", "l", "m", "o", "n", "d", "s">>,
   unit |-> "oz", cls |-> "d", sep |-> "ws", multiplier |-> "none",
   alts |-> <<[pieces |-> <<<<"o", "z">>>>, optS |-> FALSE]>>],
  [keyword |-> <<"c", "l", "e", "a", "n", "s", "e", "r", ".", "*", "o", "z">>,
   unit |-> "oz", cls |-> "dd", sep |-> "ws", multiplier |-> "none",
   alts |-> <<[pieces |-> <<<<"o", "z">>>>, optS |-> FALSE]>>],
  [keyword |-> <<"b", "o", "d", "y", " ", "s", "c", "r", "u", "b">>,
   unit |-> "oz", cls |-> "dd", sep |-> "ws", multiplier |-> "none",
   alts |-> <<[pieces |-> <<<<"o", "z">>>>, optS |-> FALSE]>>],
  [keyword |-> <<"h", "a", "n", "d", " ", "c", "r", "e", "a", "m">>,
   unit |-> "oz", cls |-> "dd", sep |-> "ws", multiplier |-> "none",
   alts |-> <<[pieces |-> <<<<"o", "z">>>>, optS |-> FALSE]>>],
  [keyword |-> <<"c", "o", "l", "o", "g", "n", "e", "|", "e", "d", "t", "|", "p", "e", "r", "f", "u", "m", "e">>,
   unit |-> "oz", cls |-> "dd", sep |-> "ws", multiplier |-> "none",
   alts |-> <<[pieces |-> <<<<"o", "z">>>>, optS |-> FALSE]>>],
  [keyword |-> <<"s", "h", "o", "w", "e", "r", ".", "*", "c", "o", "u", "n", "t">>,
   unit |-> "tablet", cls |-> "d", sep |-> "ws", multiplier |-> "none",
   alts |-> <<[pieces |-> <<<<"c", "o", "u", "n", "t">>>>, optS |-> FALSE], [pieces |-> <<<<"c", "t">>>>, optS |-> FALSE]>>],
  [keyword |-> <<"s", "o", "f", "t", ".", "p", "i", "c", "k", "s">>,
   unit |-> "pick", cls |-> "d", sep |-> "ws", multiplier |-> "none",
   alts |-> <<[pieces |-> <<<<"c", "t">>>>, optS |-> FALSE], [pieces |-> <<<<"c", "o", "u", "n", "t">>>>, optS |-> FALSE]>>],
  [keyword |-> <<"m", "e", "l", "a", "t", "o", "n", "i", "n">>,
   unit |-> "tablet", cls |-> "d", sep |-> "ws", multiplier |-> "none",
   alts |-> <<[pieces |-> <<<<"t", "a", "b", "l", "e", "t">>>>, optS |-> TRUE]>>]
  >>

\* the character class of a quantity pattern's capture group
InClass(cls, c) == IF cls = "dd" THEN IsDigit(c) \/ c = "." ELSE IsDigit(c)

\* length of the run of class characters of s that starts at position i
ClassRun(s, i, cls) ==
  IF i > Len(s) THEN 0
  ELSE LET stop == CHOOSE j \in i..(Len(s) + 1) :
                     /\ j = Len(s) + 1 \/ ~InClass(cls, s[j])
                     /\ \A x \in i..(j - 1) : InClass(cls, s[x])
       IN  stop - i

\* pieces[k..] of an alternative match s from position p: the position
\* after the match, 0 when there is none
RECURSIVE PiecesEnd(_, _, _, _)
PiecesEnd(s, p, pieces, k) ==
  IF ~LitAt(s, p, pieces[k]) THEN 0
  ELSE IF k = Len(pieces) THEN p + Len(pieces[k])
  ELSE LET ends == {PiecesEnd(s, q, pieces, k + 1) :
                      q \in WsStops(s, p + Len(pieces[k]))} \ {0}
       IN  IF ends = {} THEN 0 ELSE Max(ends)

\* one alternative, with its optional final s, matches s from position p
AltEnd(s, p, alt) ==
  LET e == PiecesEnd(s, p, alt.pieces, 1)
  IN  IF e = 0 THEN 0
      ELSE IF alt.optS /\ e <= Len(s) /\ EqI(s[e], "s") THEN e + 1
      ELSE e

\* of the candidate positions DOMAIN f, the first whose value is not 0
FirstOf(f) ==
  LET ok == {k \in DOMAIN f : f[k] # 0}
  IN  IF ok = {} THEN 0 ELSE f[Min(ok)]

\* of the candidate positions DOMAIN f, the last whose value is not 0
LastOf(f) ==
  LET ok == {k \in DOMAIN f : f[k] # 0}
  IN  IF ok = {} THEN 0 ELSE f[Max(ok)]

\* (?:ALT|ALT|...) from position p: the first alternative that matches
AltsEnd(s, p, alts) == FirstOf([k \in DOMAIN alts |-> AltEnd(s, p, alts[k])])

\* s[p..q-1] matches \s*(?:\w+\s+)*: word characters and white space only,
\* and white space at the end when there is a word
WordsBetween(s, p, q) ==
  /\ \A x \in p..(q - 1) : IsWordChar(s[x]) \/ IsSpace(s[x])
  /\ \/ \A x \in p..(q - 1) : IsSpace(s[x])
     \/ IsSpace(s[q - 1])

\* the positions SEP can stop at when started at p: "dash" is [- ]?,
\* "words" is \s*(?:\w+\s+)*, "ws" is \s*
SepStops(s, sep, p) ==
  IF sep = "dash"
  THEN IF p <= Len(s) /\ s[p] \in {"-", " "} THEN {p, p + 1} ELSE {p}
  ELSE IF sep = "words"
  THEN {q \in p..(Len(s) + 1) : WordsBetween(s, p, q)}
  ELSE WsStops(s, p)

\* SEP (?:ALT|...) from position p: SEP is greedy, so the longest
\* separator after which an alternative matches
TailEnd(s, mapping, p) ==
  LastOf([q \in SepStops(s, mapping.sep, p) |-> AltsEnd(s, q, mapping.alts)])

NoMatch == [ok |-> FALSE, m0 |-> <<>>, m1 |-> <<>>]

\* the match whose capture starts at i, given for each capture end j the
\* end f[j] of the tail after it (0 for none): the capture is greedy
Capture(s, i, f) ==
  LET good == {j \in DOMAIN f : f[j] # 0}
  IN  IF good = {} THEN NoMatch
      ELSE [ok |-> TRUE,
            m0 |-> SubSeq(s, i, f[Max(good)] - 1),
            m1 |-> SubSeq(s, i, Max(good))]

\* the capture ends the group (CLASS+) can stop at before a tail matches:
\* the end of the run only, since a shorter capture is followed by a
\* character of the class, where neither the separator nor the first
\* letter of an alternative matches; with the separator \s*(?:\w+\s+)* a
\* shorter capture matches only where the whole run does
CaptureEnds(s, i, cls) ==
  IF ClassRun(s, i, cls) = 0 THEN {} ELSE {i + ClassRun(s, i, cls) - 1}

\* the quantity pattern matched with its capture starting at position i
PatternAt(s, mapping, i) ==
  Capture(s, i, [j \in CaptureEnds(s, i, mapping.cls) |->
                   TailEnd(s, mapping, j + 1)])

\* the leftmost of the matches f[i] anchored at the positions i
Leftmost(f) ==
  LET starts == {i \in DOMAIN f : f[i].ok}
  IN  IF starts = {} THEN NoMatch ELSE f[Min(starts)]

\* itemName.match(mapping.pattern): the leftmost match, [ok, m0, m1] for
\* match !== null, match[0] and match[1]
PatternMatch(s, mapping) ==
  Leftmost([i \in 1..Len(s) |-> PatternAt(s, mapping, i)])

\* the callbacks without a conversion: parseFloat(m[1])
Multiplier_Plain(kind, m) == parseFloat(m.m1)

\* the multiplier callbacks of the coffee and seeds entries; kind
\* "seedsCS" is the seeds callback of competitor-scraper.mjs, which tests
\* m[0].includes('lb') without toLowerCase
Multiplier(kind, m) ==
  LET val == parseFloat(m.m1)
      low == toLowerCase(m.m0)
  IN  IF kind = "coffee"
      THEN IF Includes(low, <<"l", "b">>) THEN Times(val, 16, 1)
           ELSE IF Includes(low, <<"k", "g">>) THEN Times(val, 35274, 1000)
           ELSE val
      ELSE IF kind = "seeds"
      THEN IF Includes(low, <<"l", "b">>) THEN Times(val, 16, 1) ELSE val
      ELSE IF Includes(m.m0, <<"l", "b">>) THEN Times(val, 16, 1) ELSE val

(* ------------------------------------------------------------------ *)
(* new RegExp(keyword, 'i').test(nameLower)                           *)
(* The keys use literals, ".", ".*" and "|" only.                     *)
(* ------------------------------------------------------------------ *)

\* "." matches any character but a line terminator
IsDot(c) == c \notin {"\n", "\r"}

\* pat[pi..pe] (one alternative) matches a prefix of s[si..]
RECURSIVE KeyMatchAt(_, _, _, _, _)
KeyMatchAt(pat, pi, pe, s, si) ==
  IF pi > pe THEN TRUE
  ELSE IF pat[pi] = "." /\ pi < pe /\ pat[pi + 1] = "*"
       THEN \E k \in si..(Len(s) + 1) :
              /\ \A x \in si..(k - 1) : IsDot(s[x])
              /\ KeyMatchAt(pat, pi + 2, pe, s, k)
  ELSE IF pat[pi] = "."
       THEN si <= Len(s) /\ IsDot(s[si]) /\ KeyMatchAt(pat, pi + 1, pe, s, si + 1)
  ELSE si <= Len(s) /\ EqI(s[si], pat[pi]) /\ KeyMatchAt(pat, pi + 1, pe, s, si + 1)

\* the first alternative of pat only
KeyAlternatives_First(pat) ==
  {r \in {1} \X (0..Len(pat)) :
     /\ \A x \in r[1]..r[2] : pat[x] # "|"
     /\ (r[2] = Len(pat) \/ pat[r[2] + 1] = "|")}

\* the alternatives of pat: the maximal ranges that hold no "|"
KeyAlternatives(pat) ==
  {r \in (1..(Len(pat) + 1)) \X (0..Len(pat)) :
     /\ r[1] <= r[2] + 1
     /\ \A x \in r[1]..r[2] : pat[x] # "|"
     /\ (r[1] = 1 \/ pat[r[1] - 1] = "|")
     /\ (r[2] = Len(pat) \/ pat[r[2] + 1] = "|")}

KeyTest(pat, s) ==
  \E r \in KeyAlternatives(pat) :
    \E si \in 1..(Len(s) + 1) : KeyMatchAt(pat, r[1], r[2], s, si)

(* ------------------------------------------------------------------ *)
(* extractPackMultiplier                                              *)
(* ------------------------------------------------------------------ *)

s_pack == <<"p", "a", "c", "k">>

s_of == <<"o", "f">>

\* the patterns array: kind "packOf" is /\(?\s*pack\s*of\s*(\d+)\s*\)?/i,
\* kind "nPack" is /(\d+)\s*-?\s*pack\b/i, kind "trail" is
\* /,\s*(\d+)\s*(WORDs?)\s*$/i with WORD the entry's word
patterns ==
  << [kind |-> "packOf", word |-> s_pack, container |-> s_pack],
     [kind |-> "nPack", word |-> s_pack, container |-> s_pack],
     [kind |-> "trail", word |-> <<"j", "a", "r">>, container |-> <<"j", "a", "r">>],
     [kind |-> "trail", word |-> <<"b", "a", "g">>, container |-> <<"b", "a", "g">>],
     [kind |-> "trail", word |-> <<"b", "o", "t", "t", "l", "e">>,
      container |-> <<"b", "o", "t", "t", "l", "e">>],
     [kind |-> "trail", word |-> <<"b", "o", "x", "e">>, container |-> <<"b", "o", "x">>],
     [kind |-> "trail", word |-> <<"t", "u", "b", "e">>, container |-> <<"t", "u", "b", "e">>],
     [kind |-> "trail", word |-> <<"c", "a", "n">>, container |-> <<"c", "a", "n">>],
     [kind |-> "trail", word |-> <<"s", "t", "i", "c", "k">>,
      container |-> <<"s", "t", "i", "c", "k">>] >>

\* /\(?\s*pack\s*of\s*(\d+)\s*\)?/i matched with "pack" at position i:
\* the capture (the whole run of digits), <<>> when there is no match
PackOfAt(s, i) ==
  IF ~LitAt(s, i, s_pack) THEN <<>>
  ELSE LET o == SkipWs(s, i + Len(s_pack))
       IN  IF ~LitAt(s, o, s_of) THEN <<>>
           ELSE LET d == SkipWs(s, o + Len(s_of))
                IN  SubSeq(s, d, d + DigitRun(s, d) - 1)

\* /(\d+)\s*-?\s*pack\b/i matched with the capture starting at position i
NPackAt(s, i) ==
  LET Rest(p) ==
        LET a == SkipWs(s, p)
            b == IF a <= Len(s) /\ s[a] = "-" THEN a + 1 ELSE a
            tries == {SkipWs(s, b), SkipWs(s, a)}
        IN  \E c \in tries :
              /\ LitAt(s, c, s_pack)
              /\ (c + Len(s_pack) > Len(s) \/ ~IsWordChar(s[c + Len(s_pack)]))
      good == {j \in CaptureEnds(s, i, "d") : Rest(j + 1)}
  IN  IF good = {} THEN <<>> ELSE SubSeq(s, i, Max(good))

\* /,\s*(\d+)\s*(WORDs?)\s*$/i matched with the comma at position i
TrailAt(s, i, word) ==
  IF ~(i <= Len(s) /\ s[i] = ",") THEN <<>>
  ELSE LET d == SkipWs(s, i + 1)
           run == DigitRun(s, d)
           w == SkipWs(s, d + run)
           e == w + Len(word)
           ends == {e} \cup (IF e <= Len(s) /\ EqI(s[e], "s") THEN {e + 1} ELSE {})
       IN  IF /\ run > 0
              /\ LitAt(s, w, word)
              /\ \E x \in ends : SkipWs(s, x) = Len(s) + 1
           THEN SubSeq(s, d, d + run - 1)
           ELSE <<>>

\* the match of pattern pat anchored at position i: m1 is the capture
PackAt(s, pat, i) ==
  LET cap == IF pat.kind = "packOf" THEN PackOfAt(s, i)
             ELSE IF pat.kind = "nPack" THEN NPackAt(s, i)
             ELSE TrailAt(s, i, pat.word)
  IN  [ok |-> cap # <<>>, m0 |-> <<>>, m1 |-> cap]

\* name.match(re): the leftmost match, [ok, m1] for m !== null and m[1]
PackMatch(s, pat) == Leftmost([i \in 1..Len(s) |-> PackAt(s, pat, i)])

\* the body of the for loop without the container test
PackAccept_NoSkip(pat, ukLower, m) ==
  IF ~m.ok THEN 0
  ELSE IF parseInt(m.m1).num >= 2 /\ parseInt(m.m1).num <= 24 THEN parseInt(m.m1).num
  ELSE 0

\* the body of the for loop with the range test n >= 1 && n <= 30
PackAccept_Wide(pat, ukLower, m) ==
  IF ~m.ok THEN 0
  ELSE IF pat.container # s_pack /\ Includes(ukLower, pat.container) THEN 0
  ELSE IF parseInt(m.m1).num >= 1 /\ parseInt(m.m1).num <= 30 THEN parseInt(m.m1).num
  ELSE 0

\* the body of the for loop for a match m of pattern pat: the value
\* returned, 0 for none (continue, or the if falls through)
PackAccept(pat, ukLower, m) ==
  IF ~m.ok THEN 0
  ELSE IF pat.container # s_pack /\ Includes(ukLower, pat.container) THEN 0
  ELSE IF parseInt(m.m1).num >= 2 /\ parseInt(m.m1).num <= 24 THEN parseInt(m.m1).num
  ELSE 0

\* the value pattern k returns, 0 when the loop goes on to the next pattern
PackTry(name, ukLower, k) ==
  PackAccept(patterns[k], ukLower, PackMatch(name, patterns[k]))

\* the for loop over patterns, from pattern k on; return 1 after the last
\* the for loop ended by the first pattern that matches, accepted or not
RECURSIVE PackLoop_FirstMatch(_, _, _)
PackLoop_FirstMatch(name, ukLower, k) ==
  IF k > Len(patterns) THEN 1
  ELSE IF PackMatch(name, patterns[k]).ok
       THEN IF PackTry(name, ukLower, k) # 0 THEN PackTry(name, ukLower, k)
            ELSE 1
  ELSE PackLoop_FirstMatch(name, ukLower, k + 1)

\* the for loop over patterns from entry k on: the value returned
RECURSIVE PackLoop(_, _, _)
PackLoop(name, ukLower, k) ==
  IF k > Len(patterns) THEN 1
  ELSE LET r == PackTry(name, ukLower, k)
       IN  IF r # 0 THEN r ELSE PackLoop(name, ukLower, k + 1)

extractPackMultiplier(name, unitKeyword) ==
  PackLoop(name, toLowerCase(unitKeyword), 1)

\* "Gillette Clinical Deodorant Cool Wave (3-pack)"
n_gillette ==
  <<"G", "i", "l", "l", "e", "t", "t", "e", " ", "C", "l", "i", "n", "i",
  "c", "a", "l", " ", "D", "e", "o", "d", "o", "r", "a", "n", "t", " ", "C",
  "o", "o", "l", " ", "W", "a", "v", "e", " ", "(", "3", "-", "p", "a", "c",
  "k", ")">>

\* "Purina Friskies Variety Pack Cat Food, 40 cans"
n_friskies ==
  <<"P", "u", "r", "i", "n", "a", " ", "F", "r", "i", "s", "k", "i", "e",
  "s", " ", "V", "a", "r", "i", "e", "t", "y", " ", "P", "a", "c", "k", " ",
  "C", "a", "t", " ", "F", "o", "o", "d", ",", " ", "4", "0", " ", "c", "a",
  "n", "s">>

\* "Lysol Wipes, 4-Pack (80 wipes each)"
n_lysol ==
  <<"L", "y", "s", "o", "l", " ", "W", "i", "p", "e", "s", ",", " ", "4",
  "-", "P", "a", "c", "k", " ", "(", "8", "0", " ", "w", "i", "p", "e", "s",
  " ", "e", "a", "c", "h", ")">>

\* "Nautica Voyage EDT (6.7 oz)"
n_nautica ==
  <<"N", "a", "u", "t", "i", "c", "a", " ", "V", "o", "y", "a", "g", "e",
  " ", "E", "D", "T", " ", "(", "6", ".", "7", " ", "o", "z", ")">>

\* "Blue Diamond Dark Chocolate Almonds (25 oz)"
n_almonds ==
  <<"B", "l", "u", "e", " ", "D", "i", "a", "m", "o", "n", "d", " ", "D",
  "a", "r", "k", " ", "C", "h", "o", "c", "o", "l", "a", "t", "e", " ", "A",
  "l", "m", "o", "n", "d", "s", " ", "(", "2", "5", " ", "o", "z", ")">>

\* "Cat Food"
h_catfood ==
  <<"C", "a", "t", " ", "F", "o", "o", "d">>

\* "Coffee"
h_coffee ==
  <<"C", "o", "f", "f", "e", "e">>

\* "Almonds"
h_almonds ==
  <<"A", "l", "m", "o", "n", "d", "s">>

\* "Deodorant"
h_deodorant ==
  <<"D", "e", "o", "d", "o", "r", "a", "n", "t">>

\* "Wipes"
h_wipes ==
  <<"W", "i", "p", "e", "s">>

\* "PERFUME"
h_perfume ==
  <<"P", "E", "R", "F", "U", "M", "E">>

\* "Cologne"
h_cologne == <<"C", "o", "l", "o", "g", "n", "e">>

\* "Gadget"
h_gadget ==
  <<"G", "a", "d", "g", "e", "t">>

\* " 40 cans"
q_cans ==
  <<" ", "4", "0", " ", "c", "a", "n", "s">>

\* " 25 oz"
q_oz ==
  <<" ", "2", "5", " ", "o", "z">>

\* " 6.7 oz"
q_ozdec ==
  <<" ", "6", ".", "7", " ", "o", "z">>

\* " 2 LBS"
q_lbs ==
  <<" ", "2", " ", "L", "B", "S">>

\* " 1 kg"
q_kg ==
  <<" ", "1", " ", "k", "g">>

\* " 0 oz"
q_zero ==
  <<" ", "0", " ", "o", "z">>

\* " 3.4 fl. oz"
q_floz ==
  <<" ", "3", ".", "4", " ", "f", "l", ".", " ", "o", "z">>

\* "Cat Food 16 lb 12 cans"
h_catfood12 ==
  <<"C", "a", "t", " ", "F", "o", "o", "d", " ", "1", "6", " ", "l", "b",
  " ", "1", "2", " ", "c", "a", "n", "s">>

(* ------------------------------------------------------------------ *)
(* Inputs                                                             *)
(* ------------------------------------------------------------------ *)

\* the largest N of the generated "N-pack", "Pack of N" and ", N Cans" names
MaxPackN == 25

\* decimal digits of n >= 0
RECURSIVE NumStr(_)
NumStr(n) ==
  IF n < 10 THEN <<DigitChars[n + 1]>>
  ELSE NumStr(n \div 10) \o <<DigitChars[(n % 10) + 1]>>

\* " (N-pack)"
t_npack(n) == <<" ", "(">> \o NumStr(n) \o <<"-", "p", "a", "c", "k", ")">>

\* ", Pack of N"
t_packof(n) == <<",", " ", "P", "a", "c", "k", " ", "o", "f", " ">> \o NumStr(n)

\* ", N Cans"
t_cans(n) == <<",", " ">> \o NumStr(n) \o <<" ", "C", "a", "n", "s">>

\* ", N Sticks"
t_sticks(n) == <<",", " ">> \o NumStr(n) \o <<" ", "S", "t", "i", "c", "k", "s">>

\* ", N Jars"
t_jars(n) == <<",", " ">> \o NumStr(n) \o <<" ", "J", "a", "r", "s">>

\* ", N Tubes"
t_tubes(n) == <<",", " ">> \o NumStr(n) \o <<" ", "T", "u", "b", "e", "s">>

\* "Toothpaste"
h_toothpaste ==
  <<"T", "o", "o", "t", "h", "p", "a", "s", "t", "e">>

Heads ==
  {h_catfood, h_coffee, h_almonds, h_deodorant, h_wipes, h_perfume, h_gadget}

Quantities == {<<>>, q_cans, q_oz, q_ozdec, q_lbs, q_kg, q_zero, q_floz}

Tails == {<<>>, t_npack(3), t_packof(2), t_cans(4), t_sticks(6), t_jars(2)}

\* the names of the specification's examples and of the catalogue
SpecNames == {n_gillette, n_friskies, n_lysol, n_nautica, n_almonds}

ComboNames == {h \o q \o t : h \in Heads, q \in Quantities, t \in Tails}

PackNames ==
  {h \o t : h \in {h_deodorant, h_catfood12},
            t \in UNION {{t_npack(n), t_packof(n), t_cans(n)} :
                           n \in (1..MaxPackN) \cup {30}}}

\* "Chia Seeds"
h_seeds ==
  <<"C", "h", "i", "a", " ", "S", "e", "e", "d", "s">>

\* seeds by the pound, by the ounce and by the kilogram
SeedNames == {h_seeds \o q : q \in {q_lbs, q_oz, q_kg}}

\* "Coffee 2 LBS"
n_coffee_lbs == h_coffee \o q_lbs

\* "Chocolate Almonds 25 oz"
n_chocolate ==
  <<"C", "h", "o", "c", "o", "l", "a", "t", "e", " ">> \o h_almonds \o q_oz

\* names with two pack tokens: "Deodorant (1-pack), 6 Sticks",
\* "Deodorant (30-pack), 6 Sticks", "Deodorant (3-pack), 6 Sticks",
\* "Deodorant (3-pack), Pack of 2", "Deodorant, Pack of 30 (3-pack)",
\* "Toothpaste (1-pack), 4 Tubes",
\* "Cat Food 16 lb 12 cans (30-pack), 4 Cans"
TwoPackNames ==
  {h_deodorant \o t_npack(1) \o t_sticks(6),
   h_deodorant \o t_npack(30) \o t_sticks(6),
   h_deodorant \o t_npack(3) \o t_sticks(6),
   h_deodorant \o t_npack(3) \o t_packof(2),
   h_deodorant \o t_packof(30) \o t_npack(3),
   h_toothpaste \o t_npack(1) \o t_tubes(4),
   h_catfood12 \o t_npack(30) \o t_cans(4)}

\* "Cat Food Cans 0 lb Almonds 25 oz": the key of 'cat food.*cans' fires
\* and its pattern does not match, 'cat food.*lb' extracts 0, 'almonds'
\* extracts 25
n_mixed ==
  <<"C", "a", "t", " ", "F", "o", "o", "d", " ", "C", "a", "n", "s", " ",
    "0", " ", "l", "b", " ", "A", "l", "m", "o", "n", "d", "s", " ", "2",
    "5", " ", "o", "z">>

\* "Almonds 99...9 oz" with 310 digits: a quantity beyond the binary64
\* range
n_huge ==
  h_almonds \o <<" ">> \o [k \in 1..310 |-> "9"] \o <<" ", "o", "z">>

\* a cologne, and the empty name
OtherNames == {h_cologne \o q_ozdec, <<>>}

Names ==
  SpecNames \cup ComboNames \cup PackNames \cup TwoPackNames \cup OtherNames
    \cup SeedNames \cup {n_mixed, n_chocolate}

\* a name argument that is not a string: null or undefined
NullName == <<"null">>

IsString(name) == name # NullName

\* the values of the argument itemName
NameArgs == Names \cup {n_huge, NullName}

\* a price argument: a number of ten-thousandths of a dollar, or one of
\* the values NaN, null, undefined
Price(v) == [tag |-> "number", val |-> v]

NotANumber == [tag |-> "NaN", val |-> 0]

Null == [tag |-> "null", val |-> 0]

Undefined == [tag |-> "undefined", val |-> 0]

\* $9.76, $16.74, $25.37, $43.32; 0; -$5.00
Prices ==
  {Price(97600), Price(167400), Price(253700), Price(433200),
   Price(0), Price(-50000), NotANumber, Null, Undefined}

(* ------------------------------------------------------------------ *)
(* computeUnitPrice                                                   *)
(* ------------------------------------------------------------------ *)

VARIABLES
  itemName,    \* argument
  totalPrice,  \* argument
  pc,          \* "entry", "loop" (at the head of the for loop), "done"
               \* (returned) or "thrown" (left by an exception)
  nameLower,   \* const nameLower (<<>> until assigned)
  ruleIdx,     \* index in UNIT_MAPPINGS of the entry the loop is at
  count,       \* let count of the iteration that returned
  packMult,    \* const packMult of the iteration that returned
  result,      \* the value returned
  divisions,   \* number of divisions totalPrice / count performed
  mappings,    \* the object UNIT_MAPPINGS, shared by all calls
  calls,       \* the calls that have ended before this one, oldest first
  rounded,     \* the binary64 roundings computed so far
  run          \* a run of main() of a scraper (NoRun when none is modelled)

vars ==
  <<itemName, totalPrice, pc, nameLower, ruleIdx, count, packMult, result, divisions,
    mappings, calls, rounded, run>>

\* no scraper run
NoRun ==
  [program |-> "none", dryRun |-> FALSE, discover |-> FALSE, account |-> FALSE,
   db |-> "null", writeDb |-> "null", at |-> "exit", left |-> 0, found |-> 0,
   writes |-> {}]

\* return null
NoResult ==
  [isNull |-> TRUE, unitPrice |-> 0, unit |-> "", count |-> NaN,
   formatted |-> [amount |-> 0, unit |-> ""]]

\* the price check without its comparison: !totalPrice
PriceRejected_Falsy(p) ==
  \/ p.tag # "number"
  \/ p.val = 0

\* !totalPrice || totalPrice <= 0
PriceRejected(p) ==
  \/ p.tag # "number"
  \/ p.val = 0
  \/ p.val <= 0

\* !count || count <= 0
CountRejected(c) == ~Truthy(c) \/ LeqZero(c)

\* the count the entry's pattern match yields: mapping.multiplier(match)
\* when the entry has a multiplier, else parseFloat(match[1])
MatchCount(mapping, m) ==
  IF mapping.multiplier # "none" THEN Multiplier(mapping.multiplier, m)
  ELSE parseFloat(m.m1)

\* unitPrice * 100 for unitPrice = p / c (p in ten-thousandths of a dollar,
\* c > 0), as the fraction a / b of a cent
CentsOf(p, c) == [a |-> p * c.den, b |-> 100 * c.num]

\* the cents below x = a / b and, when x is not a whole number of cents,
\* above it
FloorCents(x) == x.a \div x.b

\* x lies exactly half-way between two cents
IsTie(x) == 2 * (x.a % x.b) = x.b

\* Math.round(unitPrice * 100) / 100, in ten-thousandths of a dollar.
\* Math.round takes the nearest integer and a half up.  unitPrice * 100 is
\* a binary64 product: where the exact value is a half-cent tie the
\* product lies on the half or just below it, so both cents are possible.
Round2(p, c) ==
  LET x == CentsOf(p, c)
  IN  IF IsTie(x) THEN {100 * FloorCents(x), 100 * (FloorCents(x) + 1)}
      ELSE IF 2 * (x.a % x.b) > x.b THEN {100 * (FloorCents(x) + 1)}
      ELSE {100 * FloorCents(x)}

\* unitPrice.toFixed(2), in ten-thousandths of a dollar, when
\* Math.round(unitPrice * 100) / 100 is up.  toFixed takes the cent
\* nearest to the binary64 value of unitPrice and the larger on a tie;
\* where the exact quotient is a half-cent tie the binary64 value lies on
\* it or on either side, and when it lies on or above it the product
\* unitPrice * 100 is at least the half, so Math.round has rounded up.
ToFixed2(p, c, up) ==
  LET x == CentsOf(p, c)
  IN  IF IsTie(x) THEN {f \in {100 * FloorCents(x), 100 * (FloorCents(x) + 1)} : f <= up}
      ELSE IF 2 * (x.a % x.b) > x.b THEN {100 * (FloorCents(x) + 1)}
      ELSE {100 * FloorCents(x)}

\* the roundings of p / c taken without regard to those computed before
Rounding_Unstable(p, c) ==
  UNION {{[p |-> p, c |-> c, up |-> up, fixed |-> fixed] :
            fixed \in ToFixed2(p, c, up)} : up \in Round2(p, c)}

\* Math.round(unitPrice * 100) / 100 and unitPrice.toFixed(2) for
\* unitPrice = p / c.  binary64 arithmetic is a function: operands that
\* were rounded before give the same values again.
Rounding(p, c) ==
  IF \E r \in rounded : r.p = p /\ r.c = c
  THEN {r \in rounded : r.p = p /\ r.c = c}
  ELSE UNION {{[p |-> p, c |-> c, up |-> up, fixed |-> fixed] :
                 fixed \in ToFixed2(p, c, up)} : up \in Round2(p, c)}

\* the object returned: up and fixed are Math.round(unitPrice * 100) / 100
\* and unitPrice.toFixed(2), c is the final count
MakeResult(up, fixed, c, mapping) ==
  [isNull |-> FALSE,
   unitPrice |-> up,
   unit |-> mapping.unit,
   count |-> c,
   formatted |-> [amount |-> fixed, unit |-> mapping.unit]]

\* the entries visited from the last to the first
Entries_Reversed ==
  [k \in 1..Len(mappings) |-> mappings[Len(mappings) + 1 - k]]

\* Object.entries(UNIT_MAPPINGS): the entries in the order the loop visits
Entries == mappings

\* the entry the loop visits after entry i
NextEntry(i) == i + 1

\* the iteration without count *= packMult
AfterCount_NoTimes(name, mapping, c) ==
  IF CountRejected(c)
  THEN [kind |-> "badCount", count |-> NaN, packMult |-> 0]
  ELSE [kind |-> "return",
        count |-> c,
        packMult |-> extractPackMultiplier(name, mapping.keyword)]

\* what one iteration of the for loop does with the entry mapping, from
\* the count c of its pattern match on: "badCount" for the continue of
\* if (!count || count <= 0), else "return" with the final count
AfterCount(name, mapping, c) ==
  IF CountRejected(c)
  THEN [kind |-> "badCount", count |-> NaN, packMult |-> 0]
  ELSE [kind |-> "return",
        count |-> Times(c, extractPackMultiplier(name, mapping.keyword), 1),
        packMult |-> extractPackMultiplier(name, mapping.keyword)]

\* ... from the pattern match m on: "noMatch" for the continue of if (!match)
AfterMatch(name, mapping, m) ==
  IF ~m.ok
  THEN [kind |-> "noMatch", count |-> NaN, packMult |-> 0]
  ELSE AfterCount(name, mapping, MatchCount(mapping, m))

\* one iteration of the for loop: "noKey" for the continue of
\* if (!keyRe.test(nameLower))
LoopBody(name, lower, mapping) ==
  IF ~KeyTest(mapping.keyword, lower)
  THEN [kind |-> "noKey", count |-> NaN, packMult |-> 0]
  ELSE AfterMatch(name, mapping, PatternMatch(name, mapping))

Init ==
  /\ itemName \in NameArgs
  /\ totalPrice \in Prices
  /\ pc = "entry"
  /\ nameLower = <<>>
  /\ ruleIdx = 0
  /\ count = NaN
  /\ packMult = 0
  /\ result = NoResult
  /\ divisions = 0
  /\ mappings = UNIT_MAPPINGS
  /\ calls = <<>>
  /\ rounded = {}
  /\ run = NoRun

\* if (!totalPrice || totalPrice <= 0) return null;
RejectPrice ==
  /\ pc = "entry"
  /\ PriceRejected(totalPrice)
  /\ pc' = "done"
  /\ result' = NoResult
  /\ UNCHANGED <<itemName, totalPrice, nameLower, ruleIdx, count, packMult, divisions,
               mappings, calls, rounded, run>>

\* the name is lower-cased and the loop entered without the price test
EnterLoop_Unchecked ==
  /\ pc = "entry"
  /\ IsString(itemName)
  /\ nameLower' = toLowerCase(itemName)
  /\ ruleIdx' = 1
  /\ pc' = "loop"
  /\ UNCHANGED <<itemName, totalPrice, count, packMult, result, divisions,
               mappings, calls, rounded, run>>

\* const nameLower = itemName.toLowerCase(); and the loop is entered
EnterLoop ==
  /\ pc = "entry"
  /\ ~PriceRejected(totalPrice)
  /\ IsString(itemName)
  /\ nameLower' = toLowerCase(itemName)
  /\ ruleIdx' = 1
  /\ pc' = "loop"
  /\ UNCHANGED <<itemName, totalPrice, count, packMult, result, divisions,
               mappings, calls, rounded, run>>

\* itemName.toLowerCase() on null or undefined: TypeError
ThrowTypeError ==
  /\ pc = "entry"
  /\ ~PriceRejected(totalPrice)
  /\ ~IsString(itemName)
  /\ pc' = "thrown"
  /\ UNCHANGED <<itemName, totalPrice, nameLower, ruleIdx, count, packMult, result, divisions,
               mappings, calls, rounded, run>>

AtEntry == pc = "loop" /\ ruleIdx <= Len(Entries)

Continue ==
  /\ ruleIdx' = NextEntry(ruleIdx)
  /\ UNCHANGED <<itemName, totalPrice, pc, nameLower, count, packMult, result, divisions,
               mappings, calls, rounded, run>>

\* if (!keyRe.test(nameLower)) continue;
SkipKeyword ==
  /\ AtEntry
  /\ LoopBody(itemName, nameLower, Entries[ruleIdx]).kind = "noKey"
  /\ Continue

\* match[1] read without the test of match: TypeError on null
SkipNoMatch_Unguarded ==
  /\ AtEntry
  /\ LoopBody(itemName, nameLower, Entries[ruleIdx]).kind = "noMatch"
  /\ pc' = "thrown"
  /\ UNCHANGED <<itemName, totalPrice, nameLower, ruleIdx, count, packMult, result, divisions,
               mappings, calls, rounded, run>>

\* if (!match) continue;
SkipNoMatch ==
  /\ AtEntry
  /\ LoopBody(itemName, nameLower, Entries[ruleIdx]).kind = "noMatch"
  /\ Continue

\* a rejected count ends the call: return null
SkipCount_Abort ==
  /\ AtEntry
  /\ LoopBody(itemName, nameLower, Entries[ruleIdx]).kind = "badCount"
  /\ pc' = "done"
  /\ result' = NoResult
  /\ UNCHANGED <<itemName, totalPrice, nameLower, ruleIdx, count, packMult, divisions,
               mappings, calls, rounded, run>>

\* if (!count || count <= 0) continue;
SkipCount ==
  /\ AtEntry
  /\ LoopBody(itemName, nameLower, Entries[ruleIdx]).kind = "badCount"
  /\ Continue

\* the return that also stores the count in the entry of UNIT_MAPPINGS
Return_Storing(out) ==
  /\ out.kind = "return"
  /\ packMult' = out.packMult
  /\ count' = out.count
  /\ \E r \in Rounding(totalPrice.val, out.count) :
       /\ result' = MakeResult(r.up, r.fixed, out.count, Entries[ruleIdx])
       /\ rounded' = rounded \cup {r}
  /\ divisions' = divisions + 1
  /\ pc' = "done"
  /\ mappings' = [mappings EXCEPT ![ruleIdx].keyword = <<>>]
  /\ UNCHANGED <<itemName, totalPrice, nameLower, ruleIdx, calls, run>>

\* count *= packMult; unitPrice = totalPrice / count; return {...}
Return(out) ==
  /\ out.kind = "return"
  /\ packMult' = out.packMult
  /\ count' = out.count
  /\ \E r \in Rounding(totalPrice.val, out.count) :
       /\ result' = MakeResult(r.up, r.fixed, out.count, Entries[ruleIdx])
       /\ rounded' = rounded \cup {r}
  /\ divisions' = divisions + 1
  /\ pc' = "done"
  /\ UNCHANGED <<itemName, totalPrice, nameLower, ruleIdx,
               mappings, calls, run>>

ReturnResult ==
  /\ AtEntry
  /\ Return(LoopBody(itemName, nameLower, Entries[ruleIdx]))

\* the loop ends without a return and the price is returned per item
\* instead of null
ReturnNull_PerItem ==
  /\ pc = "loop"
  /\ ruleIdx > Len(Entries)
  /\ pc' = "done"
  /\ result' = [isNull |-> FALSE, unitPrice |-> totalPrice.val, unit |-> "each",
                count |-> Num(1, 1),
                formatted |-> [amount |-> totalPrice.val, unit |-> "each"]]
  /\ UNCHANGED <<itemName, totalPrice, nameLower, ruleIdx, count, packMult, divisions,
               mappings, calls, rounded, run>>

\* the loop ends without a return: return null;
ReturnNull ==
  /\ pc = "loop"
  /\ ruleIdx > Len(Entries)
  /\ pc' = "done"
  /\ result' = NoResult
  /\ UNCHANGED <<itemName, totalPrice, nameLower, ruleIdx, count, packMult, divisions,
               mappings, calls, rounded, run>>

Next ==
  \/ RejectPrice
  \/ EnterLoop
  \/ ThrowTypeError
  \/ SkipKeyword
  \/ SkipNoMatch
  \/ SkipCount
  \/ ReturnResult
  \/ ReturnNull

Spec == Init /\ [][Next]_vars

(* ------------------------------------------------------------------ *)
(* A sequence of calls                                                *)
(*                                                                    *)
(* computeUnitPrice is synchronous: a call runs to its end before the *)
(* task that issued it, or any other task, runs again.  The calls of  *)
(* interleaved scraping tasks therefore form a sequence of whole      *)
(* calls in any order, sharing the object UNIT_MAPPINGS.              *)
(* ------------------------------------------------------------------ *)

MaxCalls == 3

\* the arguments of the calls of a sequence
CallNames == {n_mixed, h_catfood \o t_cans(4), <<>>, NullName}

CallPrices == {Price(167400), Null}

InitCalls ==
  /\ itemName \in CallNames
  /\ totalPrice \in CallPrices
  /\ pc = "entry"
  /\ nameLower = <<>>
  /\ ruleIdx = 0
  /\ count = NaN
  /\ packMult = 0
  /\ result = NoResult
  /\ divisions = 0
  /\ mappings = UNIT_MAPPINGS
  /\ calls = <<>>
  /\ rounded = {}
  /\ run = NoRun

\* the call has ended, by a return or an exception, and some task calls
\* computeUnitPrice again: new arguments and new locals
NextCall ==
  /\ pc \in {"done", "thrown"}
  /\ Len(calls) + 1 < MaxCalls
  /\ calls' = Append(calls, [name |-> itemName, price |-> totalPrice,
                             outcome |-> pc, result |-> result])
  /\ itemName' \in CallNames
  /\ totalPrice' \in CallPrices
  /\ pc' = "entry"
  /\ nameLower' = <<>>
  /\ ruleIdx' = 0
  /\ count' = NaN
  /\ packMult' = 0
  /\ result' = NoResult
  /\ divisions' = 0
  /\ UNCHANGED <<mappings, rounded, run>>

NextCalls == Next \/ NextCall

SpecCalls == InitCalls /\ [][NextCalls]_vars

(* ------------------------------------------------------------------ *)
(* main() of the Amazon scraper and of the competitor scraper         *)
(*                                                                    *)
(* run.at is the position in main, run.left the number of loop        *)
(* iterations left (items, or item-store pairs), run.found the number *)
(* of scrapes that gave a result, run.writes the database nodes on    *)
(* which set() was called.                                            *)
(* ------------------------------------------------------------------ *)

MaxItems == 2

\* the variables of computeUnitPrice
unitPriceVars ==
  <<itemName, totalPrice, pc, nameLower, ruleIdx, count, packMult, result, divisions,
    mappings, calls, rounded>>

\* initFirebaseAdmin(): null without a service account file
initFirebaseAdmin(account) == IF account THEN "db" ELSE "null"

\* const db = dryRun ? null : initFirebaseAdmin();  as if dryRun were false
AmazonDb_Always(dryRun, account) == initFirebaseAdmin(account)

\* scraper.mjs: const db = dryRun ? null : initFirebaseAdmin();
AmazonDb(dryRun, account) == IF dryRun THEN "null" ELSE initFirebaseAdmin(account)

\* const writeDb = dryRun ? null : db;
WriteDb(dryRun, db) == IF dryRun THEN "null" ELSE db

\* if (!db) return; await db.ref(node).set(...): the nodes written
DbSet(db, node) == IF db = "null" THEN {} ELSE {node}

saveAsin(db) == DbSet(db, "itemConfig")

savePriceData(db) == DbSet(db, "priceData")

appendPriceHistory(db) == DbSet(db, "priceHistory")

\* if (!db || !data.snsPrice) return; ...; if (dropPct >= 10) set(alerts):
\* drop says that the history holds a previous price and the drop is >= 10%
checkPriceAlerts(db, snsPrice, drop) ==
  IF db = "null" \/ ~snsPrice \/ ~drop THEN {} ELSE DbSet(db, "alerts")

saveCompetitorPrice(db) == DbSet(db, "competitorPrices")

InitScrape ==
  /\ itemName = <<>>
  /\ totalPrice = Undefined
  /\ pc = "idle"
  /\ nameLower = <<>>
  /\ ruleIdx = 0
  /\ count = NaN
  /\ packMult = 0
  /\ result = NoResult
  /\ divisions = 0
  /\ mappings = UNIT_MAPPINGS
  /\ calls = <<>>
  /\ rounded = {}
  /\ \E program \in {"amazon", "competitor"}, dryRun \in BOOLEAN, account \in BOOLEAN,
        discover \in BOOLEAN, left \in 0..MaxItems :
       /\ program = "competitor" => ~discover
       /\ run = [program |-> program, dryRun |-> dryRun, discover |-> discover,
                 account |-> account, db |-> "null", writeDb |-> "null",
                 at |-> "start", left |-> left, found |-> 0, writes |-> {}]

\* scraper.mjs main: the database, then discover mode or the item loop
AmazonStart ==
  /\ run.program = "amazon"
  /\ run.at = "start"
  /\ run' = [run EXCEPT !.db = AmazonDb(run.dryRun, run.account),
                         !.at = IF run.discover THEN "discover"
                                ELSE IF run.left = 0 THEN "exit" ELSE "item"]
  /\ UNCHANGED unitPriceVars

\* discoverSubscriptions(browser, db): not logged in, no subscription
\* found, or subscriptions found and saved when db is set; main returns
Discover ==
  /\ run.at = "discover"
  /\ \E outcome \in {"notLoggedIn", "none", "found"} :
       run' = [run EXCEPT !.writes = IF outcome = "found"
                                     THEN @ \cup DbSet(run.db, "subscriptions")
                                     ELSE @,
                          !.at = "exit"]
  /\ UNCHANGED unitPriceVars

\* the end of one iteration of the item loop
Advance(r) ==
  [r EXCEPT !.left = @ - 1, !.at = IF r.left = 1 THEN "exit" ELSE "item"]

\* the ASIN of the item: stored, discovered by a search and saved with
\* saveAsin, or not found (an error, continue)
FindAsin ==
  /\ run.program = "amazon"
  /\ run.at = "item"
  /\ \E asin \in {"stored", "discovered", "missing"} :
       run' = IF asin = "missing" THEN Advance(run)
              ELSE [run EXCEPT !.writes = IF asin = "discovered"
                                          THEN @ \cup saveAsin(run.db) ELSE @,
                               !.at = "scrape"]
  /\ UNCHANGED unitPriceVars

\* scrapeProductPage and what follows it up to the data object: an
\* exception is caught by the catch of the loop body
ScrapeProduct ==
  /\ run.at = "scrape"
  /\ \E ok \in BOOLEAN :
       run' = IF ok THEN [run EXCEPT !.at = "save", !.found = @ + 1]
              ELSE Advance(run)
  /\ UNCHANGED unitPriceVars

\* if (!dryRun) { savePriceData; appendPriceHistory; checkPriceAlerts }
\* else log
SaveAmazon ==
  /\ run.at = "save"
  /\ \E snsPrice \in BOOLEAN, drop \in BOOLEAN :
       run' = Advance([run EXCEPT !.writes =
                 IF ~run.dryRun
                 THEN @ \cup savePriceData(run.db) \cup appendPriceHistory(run.db)
                        \cup checkPriceAlerts(run.db, snsPrice, drop)
                 ELSE @])
  /\ UNCHANGED unitPriceVars

\* competitor scraper main: db, loadItemsFromFirebase(db) (a TypeError
\* when db is null, exit when no subscription is loaded), writeDb
CompetitorStart ==
  /\ run.program = "competitor"
  /\ run.at = "start"
  /\ run' = [run EXCEPT !.db = initFirebaseAdmin(run.account),
                         !.writeDb = IF initFirebaseAdmin(run.account) = "null" THEN "null"
                                     ELSE WriteDb(run.dryRun, initFirebaseAdmin(run.account)),
                         !.at = IF initFirebaseAdmin(run.account) = "null" THEN "crashed"
                                ELSE IF run.left = 0 THEN "exit" ELSE "item"]
  /\ UNCHANGED unitPriceVars

\* one store for one item: scrapeItem gives a result, null, or throws;
\* a result is saved with saveCompetitorPrice unless dryRun
ScrapeStore ==
  /\ run.program = "competitor"
  /\ run.at = "item"
  /\ \E outcome \in {"found", "none", "error"} :
       run' = IF outcome = "found"
              THEN Advance([run EXCEPT !.found = @ + 1,
                                       !.writes = IF ~run.dryRun
                                                  THEN @ \cup saveCompetitorPrice(run.writeDb)
                                                  ELSE @])
              ELSE Advance(run)
  /\ UNCHANGED unitPriceVars

NextScrape ==
  \/ AmazonStart
  \/ Discover
  \/ FindAsin
  \/ ScrapeProduct
  \/ SaveAmazon
  \/ CompetitorStart
  \/ ScrapeStore

SpecScrape == InitScrape /\ [][NextScrape]_vars

(* ------------------------------------------------------------------ *)
(* extractPackMultiplier on its own                                   *)
(* ------------------------------------------------------------------ *)

\* a call extractPackMultiplier(itemName, keyword) for a name and the
\* keyword of any entry of UNIT_MAPPINGS
InitPack ==
  /\ mappings = UNIT_MAPPINGS
  /\ calls = <<>>
  /\ rounded = {}
  /\ run = NoRun
  /\ itemName \in Names
  /\ ruleIdx \in DOMAIN Entries
  /\ pc = "pack"
  /\ totalPrice = Undefined
  /\ nameLower = <<>>
  /\ count = NaN
  /\ packMult = 0
  /\ result = NoResult
  /\ divisions = 0

\* const packMult = extractPackMultiplier(itemName, keyword);
CallPack ==
  /\ pc = "pack"
  /\ packMult' = extractPackMultiplier(itemName, Entries[ruleIdx].keyword)
  /\ pc' = "packed"
  /\ UNCHANGED <<itemName, totalPrice, nameLower, ruleIdx, count, result, divisions,
               mappings, calls, rounded, run>>

NextPack == CallPack

SpecPack == InitPack /\ [][NextPack]_vars

(* ------------------------------------------------------------------ *)
(* The variants of computeUnitPrice                                    *)
(*                                                                    *)
(* "scraper" is src/scraper.mjs (and src/unnamed/part_002, the same    *)
(* text): the table of UNIT_MAPPINGS and no pack multiplier.           *)
(* "competitor" is src/competitor-scraper.mjs: two more entries at the *)
(* head of the table, a seeds callback that does not lower the case,   *)
(* and no pack multiplier.  "part_000" is src/unnamed/part_000.        *)
(* ------------------------------------------------------------------ *)

Variants == {"scraper", "competitor", "part_000"}

\* 'toilet paper' and 'paper towels' of competitor-scraper.mjs, with the
\* pattern /(\d+)\s*(?:\w+\s+)*rolls?/i
ROLL_MAPPINGS ==
  <<
  [keyword |-> <<"t", "o", "i", "l", "e", "t", " ", "p", "a", "p", "e", "r">>,
   unit |-> "roll", cls |-> "d", sep |-> "words", multiplier |-> "none",
   alts |-> <<[pieces |-> <<<<"r", "o", "l", "l">>>>, optS |-> TRUE]>>],
  [keyword |-> <<"p", "a", "p", "e", "r", " ", "t", "o", "w", "e", "l", "s">>,
   unit |-> "roll", cls |-> "d", sep |-> "words", multiplier |-> "none",
   alts |-> <<[pieces |-> <<<<"r", "o", "l", "l">>>>, optS |-> TRUE]>>]
  >>

\* UNIT_MAPPINGS of competitor-scraper.mjs
COMPETITOR_MAPPINGS ==
  ROLL_MAPPINGS \o
    [k \in DOMAIN UNIT_MAPPINGS |->
       IF UNIT_MAPPINGS[k].multiplier = "seeds"
       THEN [UNIT_MAPPINGS[k] EXCEPT !.multiplier = "seedsCS"]
       ELSE UNIT_MAPPINGS[k]]

\* Object.entries(UNIT_MAPPINGS) of variant v
TableOf(v) == IF v = "competitor" THEN COMPETITOR_MAPPINGS ELSE UNIT_MAPPINGS

\* count after line "if (!count || count <= 0) continue": part_000
\* multiplies it by the pack multiplier, the other variants leave it
CountOf(v, name, mapping, c) ==
  IF v = "part_000"
  THEN Times(c, extractPackMultiplier(name, mapping.keyword), 1)
  ELSE c

\* the for loop of variant v from entry i on: the entry that returns and
\* its count, idx 0 when the loop ends and null is returned
RECURSIVE LoopOf(_, _, _)
LoopOf(v, name, i) ==
  IF i > Len(TableOf(v)) THEN [idx |-> 0, count |-> NaN]
  ELSE IF ~KeyTest(TableOf(v)[i].keyword, toLowerCase(name))
       THEN LoopOf(v, name, i + 1)
  ELSE IF ~PatternMatch(name, TableOf(v)[i]).ok
       THEN LoopOf(v, name, i + 1)
  ELSE IF CountRejected(MatchCount(TableOf(v)[i], PatternMatch(name, TableOf(v)[i])))
       THEN LoopOf(v, name, i + 1)
  ELSE [idx |-> i,
        count |-> CountOf(v, name, TableOf(v)[i],
                          MatchCount(TableOf(v)[i],
                                     PatternMatch(name, TableOf(v)[i])))]

\* computeUnitPrice(name, price) of variant v before the division
UnitCountOf(v, name, price) ==
  IF PriceRejected(price) THEN [idx |-> 0, count |-> NaN]
  ELSE LoopOf(v, name, 1)

\* the number of calls made on one name and price
MaxApplied == 2

\* "Toilet Paper 12 Mega Rolls"
n_toilet ==
  <<"T", "o", "i", "l", "e", "t", " ", "P", "a", "p", "e", "r", " ", "1",
    "2", " ", "M", "e", "g", "a", " ", "R", "o", "l", "l", "s">>

VariantNames ==
  SeedNames \cup
    {n_toilet, n_gillette, n_friskies, n_almonds, n_coffee_lbs,
     h_coffee \o q_kg, h_gadget \o q_oz, h_deodorant \o t_npack(1) \o t_sticks(6)}

VariantPrices == {Price(167400), Price(97600), Null}

\* the name as it is, in upper case and in lower case
Cases == {"asis", "upper", "lower"}

InCase(cs, name) ==
  IF cs = "upper" THEN toUpperCase(name)
  ELSE IF cs = "lower" THEN toLowerCase(name)
  ELSE name

InitVariants ==
  /\ itemName \in VariantNames
  /\ totalPrice \in VariantPrices
  /\ pc = "variants"
  /\ nameLower = <<>>
  /\ ruleIdx = 0
  /\ count = NaN
  /\ packMult = 0
  /\ result = NoResult
  /\ divisions = 0
  /\ mappings = UNIT_MAPPINGS
  /\ calls = <<>>
  /\ rounded = {}
  /\ run = NoRun

\* variant v is called on the name in case cs; the call is recorded
CallVariant(v, cs) ==
  /\ pc = "variants"
  /\ Len(calls) < MaxApplied
  /\ LET out == UnitCountOf(v, InCase(cs, itemName), totalPrice)
         call == [variant |-> v, case |-> cs, name |-> InCase(cs, itemName),
                  price |-> totalPrice, outcome |-> "done"]
     IN  IF out.idx = 0
         THEN /\ calls' = Append(calls, call @@ [result |-> NoResult])
              /\ UNCHANGED rounded
         ELSE \E r \in Rounding(totalPrice.val, out.count) :
                /\ calls' = Append(calls,
                     call @@ [result |-> MakeResult(r.up, r.fixed, out.count,
                                                    TableOf(v)[out.idx])])
                /\ rounded' = rounded \cup {r}
  /\ UNCHANGED <<itemName, totalPrice, pc, nameLower, ruleIdx, count, packMult,
               result, divisions, mappings, run>>

NextVariants == \E v \in Variants, cs \in Cases : CallVariant(v, cs)

SpecVariants == InitVariants /\ [][NextVariants]_vars

(* ------------------------------------------------------------------ *)
(* The stores of the competitor scraper (src/unnamed/part_000)        *)
(*                                                                    *)
(* main() from the launch of the browsers to process.exit, with       *)
(* scrapeItem of the Target, Walmart and Costco scrapers.  run holds   *)
(* the locals of main(): active is activeStores, scrapers the keys of  *)
(* the scrapers object, item and store the positions of the two loops. *)
(* tries is the outcome of each _scrapeSearch of the scrapeItem in     *)
(* progress, costcoErrors the part of errorCount counted for Costco.   *)
(* ------------------------------------------------------------------ *)

\* what _scrapeSearch, or scrapeItem of the Target scraper, does: returns
\* a result, returns null, throws
Outcomes == {"found", "null", "throw"}

\* activeStores: all stores but the Sam's Club stub, or the store of --store
ActiveStores ==
  {<<"target", "walmart", "costco">>, <<"walmart">>, <<"costco">>, <<"target">>}

\* the elements of a sequence
Range(f) == {f[k] : k \in DOMAIN f}

InitStores ==
  /\ itemName = <<>>
  /\ totalPrice = Undefined
  /\ pc = "idle"
  /\ nameLower = <<>>
  /\ ruleIdx = 0
  /\ count = NaN
  /\ packMult = 0
  /\ result = NoResult
  /\ divisions = 0
  /\ mappings = UNIT_MAPPINGS
  /\ calls = <<>>
  /\ rounded = {}
  /\ \E active \in ActiveStores, dryRun \in BOOLEAN, cdp \in BOOLEAN,
        context \in BOOLEAN, loggedIn \in BOOLEAN, items \in 1..MaxItems :
       run = [program |-> "stores", dryRun |-> dryRun, active |-> active,
              cdp |-> cdp, context |-> context, loggedIn |-> loggedIn,
              items |-> items,
              at |-> "launch", item |-> 1, store |-> 1,
              hasCostco |-> "costco" \in Range(active),
              browser |-> "none", costcoBrowser |-> "none",
              scrapers |-> {}, initialized |-> FALSE,
              tries |-> <<>>, result |-> "null",
              successCount |-> 0, skipCount |-> 0, errorCount |-> 0,
              costcoErrors |-> 0, saved |-> 0,
              closed |-> {}, summary |-> FALSE, exit |-> "running"]

\* hasCostco after the try of connectOverCDP: false when it threw
HasCostco(r) == r.hasCostco /\ r.cdp

\* storesWithScrapers
StoresWithScrapers(r) ==
  IF HasCostco(r) THEN Range(r.active) ELSE Range(r.active) \ {"costco"}

\* the keys of scrapers: a store of storesWithScrapers gets a scraper
\* unless its context is missing, costcoBrowser?.contexts()?.[0] for Costco
Scrapers(r) ==
  {k \in StoresWithScrapers(r) : k = "costco" => r.context}

\* the browsers are launched and the scrapers initialized; init() of the
\* Costco scraper sets _initialized when the session is logged in
Launch ==
  /\ run.program = "stores"
  /\ run.at = "launch"
  /\ run' = [run EXCEPT
       !.browser = IF Range(run.active) \ {"costco"} # {} THEN "open" ELSE "none",
       !.costcoBrowser = IF HasCostco(run) THEN "open" ELSE "none",
       !.hasCostco = HasCostco(run),
       !.scrapers = Scrapers(run),
       !.initialized = "costco" \in Scrapers(run) /\ run.loggedIn,
       !.at = "store"]
  /\ UNCHANGED unitPriceVars

\* activeStores[store] of the inner loop
StoreKey(r) == r.active[r.store]

\* the loops go on: the next store, the next item, or the cleanup
NextStore(r) ==
  IF r.store < Len(r.active) THEN [r EXCEPT !.store = @ + 1, !.at = "store"]
  ELSE IF r.item < r.items THEN [r EXCEPT !.item = @ + 1, !.store = 1, !.at = "store"]
  ELSE [r EXCEPT !.at = "cleanup"]

\* scrapers[storeKey] is undefined: scraper.scrapeItem(item) is a TypeError,
\* which the catch of the loop body counts
MissingScraper ==
  /\ run.program = "stores"
  /\ run.at = "store"
  /\ StoreKey(run) \notin run.scrapers
  /\ run' = NextStore([run EXCEPT
       !.errorCount = @ + 1,
       !.costcoErrors = IF StoreKey(run) = "costco" THEN @ + 1 ELSE @])
  /\ UNCHANGED unitPriceVars

\* TargetScraper.scrapeItem: no try around the two scrapes
TargetScrapeItem ==
  /\ run.program = "stores"
  /\ run.at = "store"
  /\ StoreKey(run) = "target"
  /\ StoreKey(run) \in run.scrapers
  /\ \E o \in Outcomes :
       run' = [run EXCEPT !.result = o, !.tries = <<>>, !.at = "returned"]
  /\ UNCHANGED unitPriceVars

\* CostcoScraper.scrapeItem: if (!this._initialized) return null
CostcoSkip ==
  /\ run.program = "stores"
  /\ run.at = "store"
  /\ StoreKey(run) = "costco"
  /\ StoreKey(run) \in run.scrapers
  /\ ~run.initialized
  /\ run' = [run EXCEPT !.result = "null", !.tries = <<>>, !.at = "returned"]
  /\ UNCHANGED unitPriceVars

\* result after a try of _scrapeSearch: what it returned, null when it threw
Caught(o) == IF o = "found" THEN "found" ELSE "null"

\* scrapeItem of the Walmart and Costco scrapers: the first try
FirstAttempt ==
  /\ run.program = "stores"
  /\ run.at = "store"
  /\ StoreKey(run) \in {"walmart", "costco"}
  /\ StoreKey(run) \in run.scrapers
  /\ StoreKey(run) = "costco" => run.initialized
  /\ \E o \in Outcomes :
       run' = [run EXCEPT !.tries = <<o>>, !.result = Caught(o), !.at = "first"]
  /\ UNCHANGED unitPriceVars

\* the retry made whatever the first try gave
Retry_Always ==
  /\ run.program = "stores"
  /\ run.at = "first"
  /\ \E o \in Outcomes :
       run' = [run EXCEPT !.tries = Append(@, o), !.result = Caught(o),
                          !.at = "returned"]
  /\ UNCHANGED unitPriceVars

\* if (!result) { try { ... result = await this._scrapeSearch(item) } ... }
Retry ==
  /\ run.program = "stores"
  /\ run.at = "first"
  /\ run.result = "null"
  /\ \E o \in Outcomes :
       run' = [run EXCEPT !.tries = Append(@, o), !.result = Caught(o),
                          !.at = "returned"]
  /\ UNCHANGED unitPriceVars

\* if (!result) is false: return result
ReturnFirst ==
  /\ run.program = "stores"
  /\ run.at = "first"
  /\ run.result # "null"
  /\ run' = [run EXCEPT !.at = "returned"]
  /\ UNCHANGED unitPriceVars

\* the rest of the loop body: a result is saved unless dryRun and counted,
\* null is counted as not found, an exception as an error
HandleResult ==
  /\ run.program = "stores"
  /\ run.at = "returned"
  /\ run' = NextStore(
       IF run.result = "found"
       THEN [run EXCEPT !.successCount = @ + 1,
                        !.saved = IF run.dryRun THEN @ ELSE @ + 1]
       ELSE IF run.result = "null" THEN [run EXCEPT !.skipCount = @ + 1]
       ELSE [run EXCEPT !.errorCount = @ + 1,
                        !.costcoErrors = IF StoreKey(run) = "costco" THEN @ + 1 ELSE @])
  /\ UNCHANGED unitPriceVars

\* the stores of activeStores before the first that has no scraper
ClosedBefore(r) ==
  {r.active[k] : k \in {k \in DOMAIN r.active :
                          \A j \in 1..k : r.active[j] \in r.scrapers}}

\* the cleanup: scrapers[storeKey].close() for each store of activeStores,
\* a TypeError when the store has no scraper, which ends main() in its
\* catch with exit code 1; else the browsers are closed, the summary is
\* logged and the exit code is 1 when an error was counted
Cleanup ==
  /\ run.program = "stores"
  /\ run.at = "cleanup"
  /\ run' = IF Range(run.active) \subseteq run.scrapers
            THEN [run EXCEPT
                    !.closed = Range(run.active),
                    !.browser = IF @ = "open" THEN "closed" ELSE @,
                    !.costcoBrowser = IF @ = "open" THEN "closed" ELSE @,
                    !.summary = TRUE,
                    !.exit = IF run.errorCount > 0 THEN "1" ELSE "0",
                    !.at = "exit"]
            ELSE [run EXCEPT !.closed = ClosedBefore(run), !.exit = "1",
                             !.at = "exit"]
  /\ UNCHANGED unitPriceVars

NextStores ==
  \/ Launch
  \/ MissingScraper
  \/ TargetScrapeItem
  \/ CostcoSkip
  \/ FirstAttempt
  \/ Retry
  \/ ReturnFirst
  \/ HandleResult
  \/ Cleanup

SpecStores == InitStores /\ [][NextStores]_vars

(* ------------------------------------------------------------------ *)
(* The recommended alternative of the Amazon scraper                  *)
(* (src/scraper.mjs, src/unnamed/part_002)                            *)
(*                                                                    *)
(* The part of the loop body of main() from scrapeAlternatives to the *)
(* re-evaluation of recommended.  run holds the item, its             *)
(* effectivePrice, computed and the alternatives; at is the position  *)
(* in the loop body and k the alternative the for loop is at.         *)
(* ------------------------------------------------------------------ *)

\* the most alternatives of one item
MaxAlts == 2

\* alt.price as scraped: "$9.76", "$16.74", ""
AltPriceTexts ==
  {<<"$", "9", ".", "7", "6">>, <<"$", "1", "6", ".", "7", "4">>, <<>>}

\* s.replace('$', ''): s without its first "$"
ReplaceDollar(s) ==
  IF \E i \in 1..Len(s) : s[i] = "$"
  THEN LET i == CHOOSE i \in 1..Len(s) :
                  s[i] = "$" /\ \A j \in 1..(i - 1) : s[j] # "$"
       IN  SubSeq(s, 1, i - 1) \o SubSeq(s, i + 1, Len(s))
  ELSE s

\* a parsed number as a price argument, in ten-thousandths of a dollar
AsPrice(a) ==
  IF a.nan THEN NotANumber ELSE Price((a.num * 10000) \div a.den)

\* parseFloat((alt.price || '').replace('$', ''))
AltPrice(text) == AsPrice(parseFloat(ReplaceDollar(text)))

\* "Cat Food 2 LBS"
n_catfood_lbs == h_catfood \o q_lbs

\* "Gadget 25 oz", which no entry matches
n_gadget_oz == h_gadget \o q_oz

ItemNames == {n_almonds, n_catfood_lbs, n_gadget_oz}

\* priceResult.snsPrice || priceResult.oneTimePrice
EffectivePrices == {Price(167400), Null}

AltNames == {n_almonds, n_friskies, n_coffee_lbs}

\* an alternative as scrapeAlternatives builds it
Alt(name, price) ==
  [name |-> name, price |-> price, recommended |-> FALSE,
   hasComputed |-> FALSE, computedUnitPriceNum |-> 0, computedUnit |-> ""]

AltPool == {Alt(n, p) : n \in AltNames, p \in AltPriceTexts}

\* the alternatives scraped for one item
AltLists == UNION {[1..n -> AltPool] : n \in 0..MaxAlts}

\* a.sort(by)[0] for a the positions in S: the position of the least
\* value, the first of them where values are equal
FirstLeast(S, by) ==
  CHOOSE i \in S : \A j \in S : by[i] < by[j] \/ (by[i] = by[j] /\ i <= j)

\* the end of scrapeAlternatives: the cheapest alternative below
\* currentPrice is recommended
PickCheapest(alts, currentPrice) ==
  LET below == {i \in DOMAIN alts :
                  /\ currentPrice.tag = "number" /\ currentPrice.val # 0
                  /\ AltPrice(alts[i].price).tag = "number"
                  /\ AltPrice(alts[i].price).val < currentPrice.val}
      by == [i \in below |-> AltPrice(alts[i].price).val]
  IN  IF below = {} THEN alts
      ELSE [alts EXCEPT ![FirstLeast(below, by)].recommended = TRUE]

InitRecommend ==
  /\ itemName = <<>>
  /\ totalPrice = Undefined
  /\ pc = "idle"
  /\ nameLower = <<>>
  /\ ruleIdx = 0
  /\ count = NaN
  /\ packMult = 0
  /\ result = NoResult
  /\ divisions = 0
  /\ mappings = UNIT_MAPPINGS
  /\ calls = <<>>
  /\ rounded = {}
  /\ \E name \in ItemNames, price \in EffectivePrices, alts \in AltLists :
       run = [program |-> "recommend", at |-> "item", k |-> 1,
              name |-> name, effectivePrice |-> price,
              computed |-> NoResult, reevaluated |-> FALSE,
              alternatives |-> PickCheapest(alts, price)]

\* computeUnitPrice of scraper.mjs, its roundings being r
Computed(name, price, r) ==
  LET out == UnitCountOf("scraper", name, price)
  IN  IF out.idx = 0 THEN NoResult
      ELSE MakeResult(r.up, r.fixed, out.count, TableOf("scraper")[out.idx])

\* the roundings a call of computeUnitPrice may take
RoundingsOf(name, price) ==
  LET out == UnitCountOf("scraper", name, price)
  IN  IF out.idx = 0 THEN {[p |-> 0, c |-> NaN, up |-> 0, fixed |-> 0]}
      ELSE Rounding(price.val, out.count)

\* const computed = computeUnitPrice(item.name, effectivePrice)
ComputeItem ==
  /\ run.program = "recommend"
  /\ run.at = "item"
  /\ \E r \in RoundingsOf(run.name, run.effectivePrice) :
       /\ run' = [run EXCEPT
            !.computed = Computed(run.name, run.effectivePrice, r),
            !.at = IF run.alternatives = <<>> THEN "reevaluate" ELSE "alts"]
       /\ rounded' = IF r.c = NaN THEN rounded ELSE rounded \cup {r}
  /\ UNCHANGED <<itemName, totalPrice, pc, nameLower, ruleIdx, count, packMult,
               result, divisions, mappings, calls>>

\* the body of for (const alt of alternatives)
ComputeAlt ==
  /\ run.program = "recommend"
  /\ run.at = "alts"
  /\ LET alt == run.alternatives[run.k]
         altPrice == AltPrice(alt.price)
     IN  \E r \in RoundingsOf(alt.name, altPrice) :
           LET altComputed == Computed(alt.name, altPrice, r)
           IN  /\ run' = [run EXCEPT
                    !.alternatives[run.k] =
                       IF altComputed.isNull THEN alt
                       ELSE [alt EXCEPT
                               !.hasComputed = TRUE,
                               !.computedUnitPriceNum = altComputed.unitPrice,
                               !.computedUnit = altComputed.unit],
                    !.k = @ + 1,
                    !.at = IF run.k = Len(run.alternatives)
                           THEN "reevaluate" ELSE "alts"]
               /\ rounded' = IF r.c = NaN THEN rounded ELSE rounded \cup {r}
  /\ UNCHANGED <<itemName, totalPrice, pc, nameLower, ruleIdx, count, packMult,
               result, divisions, mappings, calls>>

\* alternatives.filter(a => a.computedUnitPriceNum), as positions
AltsWithUnit(alts) ==
  {i \in DOMAIN alts : alts[i].hasComputed /\ alts[i].computedUnitPriceNum # 0}

\* the alternatives after the re-evaluation was entered: every
\* recommended is deleted and the cheapest alternative whose unit price
\* is below that of the item is recommended
Reevaluated(alts, computed) ==
  LET cheaper == {i \in AltsWithUnit(alts) :
                    alts[i].computedUnitPriceNum < computed.unitPrice}
      by == [i \in cheaper |-> alts[i].computedUnitPriceNum]
      cleared == [i \in DOMAIN alts |-> [alts[i] EXCEPT !.recommended = FALSE]]
  IN  IF cheaper = {} THEN cleared
      ELSE [cleared EXCEPT ![FirstLeast(cheaper, by)].recommended = TRUE]

\* if (altsWithUnit.length > 0 && computed) { ... }
Reevaluate ==
  /\ run.program = "recommend"
  /\ run.at = "reevaluate"
  /\ LET entered == AltsWithUnit(run.alternatives) # {} /\ ~run.computed.isNull
     IN  run' = [run EXCEPT
           !.alternatives = IF entered THEN Reevaluated(@, run.computed) ELSE @,
           !.reevaluated = entered,
           !.at = "done"]
  /\ UNCHANGED unitPriceVars

NextRecommend ==
  \/ ComputeItem
  \/ ComputeAlt
  \/ Reevaluate

SpecRecommend == InitRecommend /\ [][NextRecommend]_vars

(* ------------------------------------------------------------------ *)
(* The implementer (src/implementer.mjs)                              *)
(*                                                                    *)
(* Runs of main(), one after the other, on one database.  In run,     *)
(* sendQueue and stored are the nodes sendQueue and implementStatus   *)
(* of the database; implementStatus is the object of that name in     *)
(* main(), i the loop variable counted from 1.  attempted and         *)
(* succeeded count, over all runs, how often each action of the batch *)
(* was executed and how often it returned success; moves collects the *)
(* changes of the stored status of an action within a run; wrote says *)
(* that the run has written to the database.  A write to the database *)
(* either takes place or throws.                                      *)
(* ------------------------------------------------------------------ *)

\* the most actions buildActions gives for a sendQueue
MaxActions == 2

\* the runs of the implementer
MaxRuns == 2

\* the node implementStatus before any run has written it
NoStatus ==
  [status |-> "unset", completed |-> 0, total |-> 0, actions |-> <<>>,
   completedAt |-> FALSE]

\* the object implementStatus as main() builds it for n actions
StartingStatus(n) ==
  [status |-> "running", completed |-> 0, total |-> n,
   actions |-> [k \in 1..n |-> "pending"], completedAt |-> FALSE]

\* the changes of action statuses between two values of the node
Moves(old, new) ==
  {<<old[k], new[k]>> : k \in {k \in DOMAIN old \cap DOMAIN new : old[k] # new[k]}}

\* updateImplementStatus(db, implementStatus) has taken place
Stored(r) ==
  [r EXCEPT !.stored = r.implementStatus,
            !.wrote = TRUE,
            !.moves = r.moves \cup Moves(r.stored.actions, r.implementStatus.actions)]

\* catch (err) of main(): the critical error path is entered
Thrown(r) == [r EXCEPT !.at = "critical"]

\* process.exit(code)
Exit(r, code) == [r EXCEPT !.at = "exit", !.exit = code]

InitImplement ==
  /\ itemName = <<>>
  /\ totalPrice = Undefined
  /\ pc = "idle"
  /\ nameLower = <<>>
  /\ ruleIdx = 0
  /\ count = NaN
  /\ packMult = 0
  /\ result = NoResult
  /\ divisions = 0
  /\ mappings = UNIT_MAPPINGS
  /\ calls = <<>>
  /\ rounded = {}
  /\ \E status \in {"none", "pending", "completed"}, n \in 0..MaxActions,
        dryRun \in BOOLEAN, loginMode \in BOOLEAN :
       run = [program |-> "implement", at |-> "start", runsLeft |-> MaxRuns - 1,
              dryRun |-> dryRun, loginMode |-> loginMode,
              sendQueue |-> [status |-> status,
                             actions |-> IF status = "none" THEN 0 ELSE n],
              queued |-> status,
              stored |-> NoStatus, implementStatus |-> NoStatus,
              i |-> 1, successCount |-> 0, errorCount |-> 0,
              wrote |-> FALSE, readCompleted |-> FALSE, executed |-> 0,
              attempted |-> [k \in 1..MaxActions |-> 0],
              succeeded |-> [k \in 1..MaxActions |-> 0],
              moves |-> {}, exit |-> "running"]

\* actions.length
NumActions(r) == r.sendQueue.actions

\* no sendQueue, its status is 'completed', or no action is built
NothingToDo ==
  /\ run.program = "implement"
  /\ run.at = "start"
  /\ \/ run.sendQueue.status \in {"none", "completed"}
     \/ NumActions(run) = 0
  /\ run' = Exit([run EXCEPT !.readCompleted = run.sendQueue.status = "completed"],
                 "0")
  /\ UNCHANGED unitPriceVars

\* if (dryRun) { ... process.exit(0) }
DryRunExit ==
  /\ run.program = "implement"
  /\ run.at = "start"
  /\ run.sendQueue.status = "pending"
  /\ NumActions(run) > 0
  /\ run.dryRun
  /\ run' = Exit(run, "0")
  /\ UNCHANGED unitPriceVars

\* implementStatus is built and written; a throw here is outside the try
\* and ends main() in its catch
InitStatus ==
  /\ run.program = "implement"
  /\ run.at = "start"
  /\ run.sendQueue.status = "pending"
  /\ NumActions(run) > 0
  /\ ~run.dryRun
  /\ \E ok \in BOOLEAN :
       LET r == [run EXCEPT !.implementStatus = StartingStatus(NumActions(run))]
       IN  run' = IF ok
                  THEN [r EXCEPT !.stored = r.implementStatus, !.wrote = TRUE,
                                 !.at = "login"]
                  ELSE Exit(r, "1")
  /\ UNCHANGED unitPriceVars

\* what ensureLoggedIn does: returns true, returns false, throws
LoginOutcomes == {"in", "out", "throw"}

\* the login check, made again after the wait with --login
Login ==
  /\ run.program = "implement"
  /\ run.at = "login"
  /\ \E first \in LoginOutcomes, second \in LoginOutcomes, ok \in BOOLEAN :
       LET outcome == IF first = "out" /\ run.loginMode THEN second ELSE first
           failed == [run EXCEPT !.implementStatus.status = "error"]
       IN  run' = IF outcome = "in"
                  THEN [run EXCEPT !.at = "loop", !.i = 1,
                                   !.successCount = 0, !.errorCount = 0]
                  ELSE IF outcome = "throw" THEN Thrown(run)
                  ELSE IF ok THEN Exit(Stored(failed), "1")
                  ELSE Thrown(failed)
  /\ UNCHANGED unitPriceVars

\* the head of the loop body: action i is marked running
MarkRunning ==
  /\ run.program = "implement"
  /\ run.at = "loop"
  /\ \E ok \in BOOLEAN :
       LET r == [run EXCEPT !.implementStatus.actions[run.i] = "running"]
       IN  run' = IF ok THEN [Stored(r) EXCEPT !.at = "execute"] ELSE Thrown(r)
  /\ UNCHANGED unitPriceVars

\* what executeSkip, executeSwitch and executeCancel do: return success,
\* return no success, throw
ExecuteOutcomes == {"success", "fail", "throw"}

\* the try of the loop body and its catch
Execute ==
  /\ run.program = "implement"
  /\ run.at = "execute"
  /\ \E o \in ExecuteOutcomes :
       run' = [run EXCEPT
         !.implementStatus.actions[run.i] = IF o = "success" THEN "done" ELSE "error",
         !.successCount = IF o = "success" THEN @ + 1 ELSE @,
         !.errorCount = IF o = "success" THEN @ ELSE @ + 1,
         !.executed = @ + 1,
         !.attempted[run.i] = @ + 1,
         !.succeeded[run.i] = IF o = "success" THEN @ + 1 ELSE @,
         !.at = "record"]
  /\ UNCHANGED unitPriceVars

\* implementStatus.completed = i + 1 is written and the loop goes on
RecordCompleted ==
  /\ run.program = "implement"
  /\ run.at = "record"
  /\ \E ok \in BOOLEAN :
       LET r == [run EXCEPT !.implementStatus.completed = run.i]
       IN  run' = IF ~ok THEN Thrown(r)
                  ELSE IF run.i < NumActions(run)
                  THEN [Stored(r) EXCEPT !.i = @ + 1, !.at = "loop"]
                  ELSE [Stored(r) EXCEPT !.at = "final"]
  /\ UNCHANGED unitPriceVars

\* implementStatus.status = errorCount === actions.length ? 'error' : 'done'
FinalStatus(r) ==
  [r EXCEPT !.implementStatus.status =
              IF r.errorCount = NumActions(r) THEN "error" ELSE "done",
            !.implementStatus.completedAt = TRUE]

\* the final status is written
WriteFinal ==
  /\ run.program = "implement"
  /\ run.at = "final"
  /\ \E ok \in BOOLEAN :
       run' = IF ok THEN [Stored(FinalStatus(run)) EXCEPT !.at = "clear"]
              ELSE Thrown(FinalStatus(run))
  /\ UNCHANGED unitPriceVars

\* clearSendQueue(db), the browser is closed, process.exit(0)
ClearSendQueue ==
  /\ run.program = "implement"
  /\ run.at = "clear"
  /\ \E ok \in BOOLEAN :
       run' = IF ok
              THEN Exit([run EXCEPT !.sendQueue.status = "completed",
                                    !.wrote = TRUE], "0")
              ELSE Thrown(run)
  /\ UNCHANGED unitPriceVars

\* the critical error path: status 'error' and completedAt are written;
\* a throw of that write ends main() in its catch
CriticalError ==
  /\ run.program = "implement"
  /\ run.at = "critical"
  /\ \E ok \in BOOLEAN :
       LET r == [run EXCEPT !.implementStatus.status = "error",
                            !.implementStatus.completedAt = TRUE]
       IN  run' = IF ok THEN Exit(Stored(r), "0") ELSE Exit(r, "1")
  /\ UNCHANGED unitPriceVars

\* the implementer is run again on the same database
NewRun ==
  /\ run.program = "implement"
  /\ run.at = "exit"
  /\ run.runsLeft > 0
  /\ \E dryRun \in BOOLEAN, loginMode \in BOOLEAN :
       run' = [run EXCEPT !.at = "start", !.runsLeft = @ - 1,
                          !.dryRun = dryRun, !.loginMode = loginMode,
                          !.implementStatus = NoStatus,
                          !.i = 1, !.successCount = 0, !.errorCount = 0,
                          !.wrote = FALSE, !.readCompleted = FALSE,
                          !.executed = 0, !.moves = {}, !.exit = "running"]
  /\ UNCHANGED unitPriceVars

NextImplement ==
  \/ NothingToDo
  \/ DryRunExit
  \/ InitStatus
  \/ Login
  \/ MarkRunning
  \/ Execute
  \/ RecordCompleted
  \/ WriteFinal
  \/ ClearSendQueue
  \/ CriticalError
  \/ NewRun

SpecImplement == InitImplement /\ [][NextImplement]_vars

(* ------------------------------------------------------------------ *)
(* Properties                                                         *)
(* ------------------------------------------------------------------ *)

Done == pc = "done"

\* the price is a number greater than 0
Positive(p) == p.tag = "number" /\ p.val > 0

\* a quantity a rule can use: a number greater than 0
Usable(c) == ~c.nan /\ c.num > 0

\* a < b for two numbers
Less(a, b) == a.num * b.den < b.num * a.den

\* the quantity rule i extracts from name, after its transform
RawQuantity(name, i) ==
  MatchCount(UNIT_MAPPINGS[i], PatternMatch(name, UNIT_MAPPINGS[i]))

\* rule i's match pattern fires on name
Fires(name, i) == KeyTest(UNIT_MAPPINGS[i].keyword, toLowerCase(name))

\* rule i's match pattern fires on name and its quantity pattern extracts
\* a usable quantity from it
Extracts(name, i) ==
  /\ Fires(name, i)
  /\ PatternMatch(name, UNIT_MAPPINGS[i]).ok
  /\ Usable(RawQuantity(name, i))

Winners(name) == {i \in DOMAIN UNIT_MAPPINGS : Extracts(name, i)}

\* C1: whenever the price is <= 0, NaN or absent, the call returns null
\* and performs no division.
C1_NonPositivePriceNoResult ==
  ~Positive(totalPrice) => divisions = 0 /\ (Done => result.isNull)

\* a call with a negative price, on a name that has a unit price at a
\* positive price, has returned null
C1_Witness ==
  /\ Done
  /\ itemName = n_almonds
  /\ totalPrice = Price(-50000)
  /\ result.isNull
  /\ divisions = 0

\* C2: for a price > 0, when no rule both fires on the name and extracts
\* a usable quantity from it, the call returns null.
C2_NoRuleNoResult ==
  (Done /\ Positive(totalPrice) /\ Winners(itemName) = {}) => result.isNull

\* a call at a positive price on a name on which a rule fires without a
\* usable quantity, and no rule extracts, has returned null
C2_Witness ==
  /\ Done
  /\ Positive(totalPrice)
  /\ Winners(itemName) = {}
  /\ \E i \in DOMAIN UNIT_MAPPINGS : Fires(itemName, i)
  /\ result.isNull

\* C3: the result is that of the first rule, in UNIT_MAPPINGS order, that
\* fires and extracts a usable quantity: its unit, and its raw quantity
\* (times the pack multiplier), whatever the later rules would extract.
C3_FirstMatchWins ==
  (Done /\ ~result.isNull) =>
    /\ Winners(itemName) # {}
    /\ LET w == Min(Winners(itemName))
       IN  /\ result.unit = UNIT_MAPPINGS[w].unit
           /\ result.count = Times(RawQuantity(itemName, w), packMult, 1)

\* a result on a name from which two rules extract different units, the
\* later rule the larger quantity
C3_Witness ==
  /\ Done
  /\ ~result.isNull
  /\ \E j \in Winners(itemName) :
       /\ j > Min(Winners(itemName))
       /\ UNIT_MAPPINGS[j].unit # UNIT_MAPPINGS[Min(Winners(itemName))].unit
       /\ Less(RawQuantity(itemName, Min(Winners(itemName))), RawQuantity(itemName, j))
  /\ result.unit = UNIT_MAPPINGS[Min(Winners(itemName))].unit

\* the rule whose match pattern is kw
RuleOf(kw) == CHOOSE i \in DOMAIN UNIT_MAPPINGS : UNIT_MAPPINGS[i].keyword = kw

\* 'deodorant.*pack'
k_deodorant_pack ==
  <<"d", "e", "o", "d", "o", "r", "a", "n", "t", ".", "*", "p", "a", "c", "k">>

\* 'cat food.*cans'
k_cat_food_cans ==
  <<"c", "a", "t", " ", "f", "o", "o", "d", ".", "*", "c", "a", "n", "s">>

\* 'cologne|edt|perfume'
k_cologne ==
  <<"c", "o", "l", "o", "g", "n", "e", "|", "e", "d", "t", "|", "p", "e", "r", "f", "u", "m", "e">>

\* the unit price is a cent value nearest to price / c
NearestCent(u, price, c) ==
  LET x == CentsOf(price, c)
      d == x.a - (u \div 100) * x.b
  IN  u % 100 = 0 /\ 2 * d <= x.b /\ 2 * d >= -x.b

\* C4: under 'deodorant.*pack', whose quantity pattern captures N from
\* "N-pack", the result count is N and unitPrice is price / N rounded to
\* cents; "Gillette Clinical Deodorant Cool Wave (3-pack)" at 43.32 gives
\* count 3, unit "stick", unitPrice 14.44.
C4_PackCountIsCapturedN ==
  (Done /\ ~result.isNull /\ ruleIdx = RuleOf(k_deodorant_pack)) =>
    /\ result.count = RawQuantity(itemName, ruleIdx)
    /\ NearestCent(result.unitPrice, totalPrice.val, RawQuantity(itemName, ruleIdx))
    /\ (itemName = n_gillette /\ totalPrice = Price(433200)) =>
         /\ result.count = Num(3, 1)
         /\ result.unit = "stick"
         /\ result.unitPrice = 144400

\* pattern k of the pack detector is skipped for the unit keyword uk
Skipped(k, uk) ==
  /\ patterns[k].container # s_pack
  /\ Includes(toLowerCase(uk), patterns[k].container)

\* the patterns of the pack detector that match name and are not skipped
NonSkipped(name, uk) ==
  {k \in DOMAIN patterns : ~Skipped(k, uk) /\ PackMatch(name, patterns[k]).ok}

\* the number pattern k captures from name
CapturedN(name, k) == parseInt(PackMatch(name, patterns[k]).m1).num

\* the trailing ", N cans" pattern of the pack detector
CansPattern == CHOOSE k \in DOMAIN patterns : patterns[k].container = <<"c", "a", "n">>

PackMultiplierOk(name, uk, r) ==
  LET ms == [k \in DOMAIN patterns |-> PackMatch(name, patterns[k])]
      ns == {k \in DOMAIN patterns : ~Skipped(k, uk) /\ ms[k].ok}
      n == [k \in ns |-> parseInt(ms[k].m1).num]
  IN  /\ r = 1 \/ (r \in 2..24 /\ \E k \in ns : n[k] = r)
      /\ (\A k \in ns : n[k] \in {1, 30}) => r = 1
      /\ \A k \in ns : (ns = {k} /\ n[k] \in 2..24) => r = n[k]

\* C6: for every name and unit keyword extractPackMultiplier returns 1 or
\* an integer in 2..24 that a non-skipped pattern captured from the name;
\* a capture of 1 or 30 never becomes the multiplier, and a sole
\* non-skipped pattern capturing N in 2..24 yields N.
C6_PackMultiplierRange ==
  pc = "packed" =>
    PackMultiplierOk(itemName, Entries[ruleIdx].keyword, packMult)

\* the detector has returned 24, the capture of the only pattern that
\* matches the name
C6_Witness ==
  /\ pc = "packed"
  /\ packMult = 24
  /\ \E k \in DOMAIN patterns :
       /\ NonSkipped(itemName, Entries[ruleIdx].keyword) = {k}
       /\ CapturedN(itemName, k) = 24

\* C7: a result's count is rawQuantity * packMultiplier, rawQuantity the
\* quantity the winning rule extracted (after its transform) and
\* packMultiplier the value of extractPackMultiplier for the name, and
\* its unitPrice is totalPrice / count rounded to 2 decimals.
C7_CountIsRawTimesPack ==
  (Done /\ ~result.isNull) =>
    /\ packMult = extractPackMultiplier(itemName, UNIT_MAPPINGS[ruleIdx].keyword)
    /\ result.count = Times(RawQuantity(itemName, ruleIdx), packMult, 1)
    /\ NearestCent(result.unitPrice, totalPrice.val, result.count)

\* a result of a rule with a transform on a multi-pack name: the count is
\* neither the raw quantity nor the number captured
C7_Witness ==
  /\ Done
  /\ ~result.isNull
  /\ UNIT_MAPPINGS[ruleIdx].multiplier # "none"
  /\ packMult > 1
  /\ RawQuantity(itemName, ruleIdx) # parseFloat(PatternMatch(itemName, UNIT_MAPPINGS[ruleIdx]).m1)
  /\ result.count = Times(RawQuantity(itemName, ruleIdx), packMult, 1)

\* C8: "Lysol Wipes, 4-Pack (80 wipes each)" at a price > 0 yields the
\* per-container quantity times the pack count, 80 * 4 = 320 wipes.
C8_LysolCount ==
  (Done /\ itemName = n_lysol /\ Positive(totalPrice)) =>
    ~result.isNull /\ result.count = Num(320, 1)

\* totalPrice / c to the nearest cent, a half up
HalfUp(price, c) ==
  LET x == CentsOf(price, c)
  IN  100 * ((2 * x.a + x.b) \div (2 * x.b))

\* C9: unitPrice is totalPrice / count rounded to the nearest cent with
\* halves rounded up, so within half a cent of the exact quotient; the
\* almonds name of 25 oz at 9.76 has unitPrice 0.39 and unit "oz".
C9_HalvesRoundedUp ==
  (Done /\ ~result.isNull) =>
    /\ result.unitPrice = HalfUp(totalPrice.val, result.count)
    /\ NearestCent(result.unitPrice, totalPrice.val, result.count)
    /\ (itemName = n_almonds /\ totalPrice = Price(97600)) =>
         result.unitPrice = 3900 /\ result.unit = "oz"

\* the alternative keywords of 'cologne|edt|perfume'
CologneWords ==
  {<<"c", "o", "l", "o", "g", "n", "e">>,
   <<"e", "d", "t">>,
   <<"p", "e", "r", "f", "u", "m", "e">>}

\* name holds one of the words, in any case
ContainsAny(name, words) == \E w \in words : Includes(toLowerCase(name), w)

\* C10: a name that no earlier rule classifies and that contains one of
\* the keywords of 'cologne|edt|perfume' is classified by that rule: the
\* key fires, and with a quantity in oz the result has unit "oz" and that
\* quantity. "Nautica Voyage EDT (6.7 oz)" at 25.37 gives unit "oz",
\* count 6.7 and unitPrice 3.79.
C10_CologneAlternatives ==
  (/\ Done
   /\ Positive(totalPrice)
   /\ ContainsAny(itemName, CologneWords)
   /\ \A i \in 1..(RuleOf(k_cologne) - 1) : ~Extracts(itemName, i)) =>
    /\ Fires(itemName, RuleOf(k_cologne))
    /\ Extracts(itemName, RuleOf(k_cologne)) =>
         /\ ~result.isNull
         /\ ruleIdx = RuleOf(k_cologne)
         /\ result.unit = "oz"
         /\ result.count = Times(RawQuantity(itemName, ruleIdx), packMult, 1)
    /\ (itemName = n_nautica /\ totalPrice = Price(253700)) =>
         /\ result.unit = "oz"
         /\ result.count = Num(67, 10)
         /\ result.unitPrice = 37900

\* the Nautica call has returned its result, the name holding the second
\* alternative only
C10_Witness ==
  /\ Done
  /\ itemName = n_nautica
  /\ totalPrice = Price(253700)
  /\ ~Includes(toLowerCase(itemName), <<"c", "o", "l", "o", "g", "n", "e">>)
  /\ ruleIdx = RuleOf(k_cologne)
  /\ result.unit = "oz"
  /\ result.count = Num(67, 10)
  /\ result.unitPrice = 37900

\* one of the failure modes: non-positive price, or no rule that fires and
\* extracts a positive quantity (no category match, quantity unextractable,
\* non-positive quantity)
FailureMode == ~Positive(totalPrice) \/ Winners(itemName) = {}

\* C11: for every string name, the empty string included, and every price
\* value, computeUnitPrice never throws, and each failure mode ends in
\* the outcome null.
C11_NeverThrows ==
  IsString(itemName) =>
    /\ pc # "thrown"
    /\ (Done /\ FailureMode) => result.isNull

\* the call on the empty name at a positive price has gone through the
\* whole loop and returned null
C11_Witness ==
  /\ Done
  /\ itemName = <<>>
  /\ Positive(totalPrice)
  /\ ruleIdx > Len(Entries)
  /\ result.isNull

\* the call has ended, by a return or an exception
Ended == pc \in {"done", "thrown"}

\* the call that has just ended, as a record of calls
ThisCall ==
  [name |-> itemName, price |-> totalPrice, outcome |-> pc, result |-> result]

\* the calls that have ended, oldest first
EndedCalls == IF Ended THEN Append(calls, ThisCall) ELSE calls

AsInIsolation ==
  IF ~IsString(itemName)
  THEN IF Positive(totalPrice) THEN pc = "thrown" ELSE Done /\ result.isNull
  ELSE /\ Done
       /\ IF FailureMode THEN result.isNull
          ELSE LET w == Min(Winners(itemName))
               IN  /\ ~result.isNull
                   /\ result.unit = UNIT_MAPPINGS[w].unit
                   /\ result.formatted.unit = UNIT_MAPPINGS[w].unit
                   /\ result.count =
                        Times(RawQuantity(itemName, w),
                              extractPackMultiplier(itemName, UNIT_MAPPINGS[w].keyword), 1)
                   /\ NearestCent(result.unitPrice, totalPrice.val, result.count)
                   /\ NearestCent(result.formatted.amount, totalPrice.val, result.count)

\* C13: calls issued by interleaved tasks do not interfere: no call
\* changes UNIT_MAPPINGS, and each call's result is that of the same call
\* run in isolation.
C13_NoInterference ==
  /\ mappings = UNIT_MAPPINGS
  /\ Ended => AsInIsolation

\* the third call of a sequence, after two calls with other arguments, one
\* of them ended by an exception, has returned its result
C13_Witness ==
  /\ Done
  /\ Len(calls) = 2
  /\ \A i \in DOMAIN calls : calls[i].name # itemName
  /\ \E i \in DOMAIN calls : calls[i].outcome = "thrown"
  /\ \E i \in DOMAIN calls : ~calls[i].result.isNull
  /\ ~result.isNull
  /\ mappings = UNIT_MAPPINGS

\* C14: with --dry-run neither scraper writes to Firebase, whatever the
\* scrapes give: no set() is issued on any node of the database.
C14_DryRunWritesNothing == run.dryRun => run.writes = {}

\* a dry run of the Amazon scraper that has ended after two scrapes that
\* gave a result, with an ASIN discovered, and has written nothing
C14_Witness ==
  /\ run.dryRun
  /\ run.program = "amazon"
  /\ run.at = "exit"
  /\ run.found = 2
  /\ run.writes = {}

\* C15: the price check comes before any text analysis: with a price that
\* is non-positive or absent the call returns null without lower-casing
\* the name, entering the rule loop or running a quantity or pack pattern,
\* so that even a null or undefined name causes no failure.
C15_PriceCheckedFirst ==
  ~Positive(totalPrice) =>
    /\ pc \in {"entry", "done"}
    /\ nameLower = <<>>
    /\ ruleIdx = 0
    /\ packMult = 0
    /\ Done => result.isNull

\* the call with a name that is no string and the price 0 has returned
\* null
C15_Witness ==
  /\ Done
  /\ ~IsString(itemName)
  /\ totalPrice = Price(0)
  /\ result.isNull
  /\ ruleIdx = 0

\* rule i fires on name and its quantity pattern extracts nothing from it
FiresWithoutMatch(name, i) ==
  Fires(name, i) /\ ~PatternMatch(name, UNIT_MAPPINGS[i]).ok

\* the rules the loop has gone past when the call has ended
Passed == 1..(IF ruleIdx > Len(UNIT_MAPPINGS) THEN Len(UNIT_MAPPINGS) ELSE ruleIdx - 1)

\* C16: when a rule's match pattern fires on the name and its quantity
\* pattern extracts nothing, there is no fall through to another category:
\* no later rule is tried and the result is absent.
C16_NoFallThrough ==
  (Done /\ IsString(itemName) /\ Positive(totalPrice)
     /\ \E i \in Passed : FiresWithoutMatch(itemName, i)) =>
    result.isNull

\* rule i fires on name and extracts a quantity that is rejected: 0 or
\* not a number
FiresAndRejects(name, i) ==
  /\ Fires(name, i)
  /\ PatternMatch(name, UNIT_MAPPINGS[i]).ok
  /\ ~Usable(RawQuantity(name, i))

\* the rules that reject their quantity and that the loop reaches: no
\* earlier rule returns
ReachedRejecting(name) ==
  {i \in DOMAIN UNIT_MAPPINGS :
     FiresAndRejects(name, i) /\ \A j \in Winners(name) : j > i}

\* C17: when a matched rule's extracted quantity is rejected, that rule
\* alone yields nothing and the remaining rules are tried in order: the
\* result is that of the next rule that fires and extracts a positive
\* quantity, or absent when there is none.
C17_RejectedQuantityContinues ==
  (Done /\ IsString(itemName) /\ Positive(totalPrice)
     /\ ReachedRejecting(itemName) # {}) =>
    IF Winners(itemName) = {} THEN result.isNull
    ELSE /\ ~result.isNull
         /\ ruleIdx = Min(Winners(itemName))
         /\ result.unit = UNIT_MAPPINGS[ruleIdx].unit
         /\ result.count = Times(RawQuantity(itemName, ruleIdx), packMult, 1)

\* a result of a rule that comes after a rule whose quantity 0 was
\* rejected
C17_Witness ==
  /\ Done
  /\ ~result.isNull
  /\ \E i \in ReachedRejecting(itemName) :
       /\ i < ruleIdx
       /\ RawQuantity(itemName, i) = Num(0, 1)
       /\ UNIT_MAPPINGS[i].unit # result.unit

(* C18: every result returned has a count that is a finite number greater
   than 0 (never 0, negative, NaN or infinite), and its unitPrice is a
   finite number that is not negative.  The check !count || count <= 0
   of the code lets Infinity through: a quantity of 310 digits parses to
   Infinity, which is returned as the count with a unitPrice of 0. *)
C18_CountFinitePositive ==
  (Done /\ ~result.isNull) =>
    /\ IsFinite(result.count)
    /\ result.count.num > 0
    /\ result.unitPrice >= 0

\* the canonical unit holds the container word
UnitHolds(unit, container) ==
  \/ unit = "can" /\ container = <<"c", "a", "n">>
  \/ unit = "stick" /\ container = <<"s", "t", "i", "c", "k">>
  \/ unit = "tube" /\ container = <<"t", "u", "b", "e">>

\* the multiplier of a detector whose guard is driven by the canonical
\* unit: the capture of the first pattern that matches name, is "pack" or
\* of a container word the unit does not hold, and lies in 2..24; else 1
ByUnit(name, unit) ==
  LET ok == {k \in DOMAIN patterns :
               /\ PackMatch(name, patterns[k]).ok
               /\ patterns[k].container = s_pack
                    \/ ~UnitHolds(unit, patterns[k].container)
               /\ CapturedN(name, k) \in 2..24}
  IN  IF ok = {} THEN 1 ELSE CapturedN(name, Min(ok))

(* C19: the double-count guard of the pack detector is driven by the
   winning category's canonical unit: a container pattern other than
   "pack" is skipped exactly when the unit contains the container word,
   so for a rule whose unit is "stick" or "tube" a trailing ", N Sticks"
   or ", N Tubes" is never applied as a multiplier.  The code passes the
   key of the rule, not its unit: 'deodorant.*pack' holds no "stick", and
   "Deodorant (1-pack), 6 Sticks" is multiplied by 6. *)
C19_GuardByCanonicalUnit ==
  (Done /\ ~result.isNull) => packMult = ByUnit(itemName, result.unit)

\* the patterns of the pack detector that match name, are not skipped and
\* capture a number in 2..24
Accepted(name, uk) ==
  {k \in NonSkipped(name, uk) : CapturedN(name, k) \in 2..24}

\* the order of the patterns: "pack of N", "N-pack", then the trailing
\* jars, bags, bottles, boxes, tubes, cans, sticks
StatedOrder ==
  << <<"packOf", s_pack>>, <<"nPack", s_pack>>,
     <<"trail", <<"j", "a", "r">>>>, <<"trail", <<"b", "a", "g">>>>,
     <<"trail", <<"b", "o", "t", "t", "l", "e">>>>,
     <<"trail", <<"b", "o", "x">>>>, <<"trail", <<"t", "u", "b", "e">>>>,
     <<"trail", <<"c", "a", "n">>>>,
     <<"trail", <<"s", "t", "i", "c", "k">>>> >>

(* C20: the pack detector tests its patterns in the order of the patterns
   array ("pack of N", "N-pack", then trailing jars, bags, bottles, boxes,
   tubes, cans, sticks) and returns the capture of the first pattern that
   matches, is not skipped and lies in 2..24; a pattern whose capture is
   rejected or skipped does not end the search, and 1 is returned only
   when no pattern is accepted. *)
C20_FirstAcceptedPattern ==
  pc = "packed" =>
    LET acc == Accepted(itemName, Entries[ruleIdx].keyword)
    IN  /\ [k \in DOMAIN patterns |-> <<patterns[k].kind, patterns[k].container>>]
             = StatedOrder
        /\ IF acc = {} THEN packMult = 1
           ELSE packMult = CapturedN(itemName, Min(acc))

\* the detector has returned the capture of a pattern that comes after a
\* pattern that matches the name and is rejected
C20_Witness ==
  /\ pc = "packed"
  /\ \E k \in Accepted(itemName, Entries[ruleIdx].keyword) :
       /\ packMult = CapturedN(itemName, k)
       /\ \E j \in 1..(k - 1) : PackMatch(itemName, patterns[j]).ok

\* the unit word of a quantity match: the text of the match after the
\* capture and the separator, in lower case
UnitWord(m) ==
  toLowerCase(SubSeq(m.m0, SkipWs(m.m0, Len(m.m1) + 1), Len(m.m0)))

\* the quantity the claim gives to a match of a rule: the capture as a
\* number, times 16 when a rule with a transform captured pounds, times
\* 35.274 when it captured kilograms
Transformed(mapping, m) ==
  IF mapping.multiplier = "none" THEN parseFloat(m.m1)
  ELSE IF UnitWord(m) \in {<<"l", "b">>, <<"l", "b", "s">>}
       THEN Times(parseFloat(m.m1), 16, 1)
  ELSE IF UnitWord(m) = <<"k", "g">> /\ mapping.multiplier = "coffee"
       THEN Times(parseFloat(m.m1), 35274, 1000)
  ELSE parseFloat(m.m1)



(* C21: for the rules with a quantity transform (coffee and seeds, unit
   "oz") a capture in pounds is converted as value * 16, a capture in
   kilograms (coffee only) as value * 35.274 and a capture in ounces is
   left unchanged; for the other rules the quantity is the first numeric
   capture parsed as a number.  "Coffee 2 LBS" has the raw quantity 32. *)
C21_QuantityTransform ==
  (Done /\ ~result.isNull) =>
    LET mapping == UNIT_MAPPINGS[ruleIdx]
        m == PatternMatch(itemName, mapping)
    IN  /\ result.count = Times(Transformed(mapping, m), packMult, 1)
        /\ mapping.multiplier # "none" => result.unit = "oz"
        /\ itemName = n_coffee_lbs =>
             result.count = Num(32, 1) /\ packMult = 1

\* a coffee by the kilogram and seeds by the pound have been converted
C21_Witness ==
  /\ Done
  /\ ~result.isNull
  /\ LET mapping == UNIT_MAPPINGS[ruleIdx]
         m == PatternMatch(itemName, mapping)
     IN  \/ /\ mapping.multiplier = "coffee"
            /\ UnitWord(m) = <<"k", "g">>
            /\ result.count = Times(Num(35274, 1000), packMult, 1)
         \/ /\ mapping.multiplier = "seeds"
            /\ UnitWord(m) = <<"l", "b", "s">>
            /\ result.count = Times(Num(32, 1), packMult, 1)

\* the key consists of literal characters only
IsLiteralKey(key) == \A k \in DOMAIN key : key[k] \notin {".", "*", "|"}

\* every name matched by key a is matched by key b: b is a literal that
\* stands in a literal part of a, and a has no alternatives
KeyWithin(a, b) ==
  /\ IsLiteralKey(b)
  /\ \A k \in DOMAIN a : a[k] # "|"
  /\ Includes(a, b)

(* C22: the rule table is ordered so that the more specific match
   patterns precede the generic ones they overlap with: of two rules such
   that every name matched by rule A is also matched by rule B, A comes
   before B, so no rule is shadowed by an earlier one.  Stated of a call
   that returned: a rule that fires on the name and whose names are all
   matched by the winning rule comes before the winning rule.
   'chocolate.*almonds' comes after 'almonds' and never wins. *)
C22_SpecificBeforeGeneric ==
  (Done /\ ~result.isNull) =>
    \A j \in DOMAIN UNIT_MAPPINGS :
      (/\ j # ruleIdx
       /\ KeyWithin(UNIT_MAPPINGS[j].keyword, UNIT_MAPPINGS[ruleIdx].keyword)
       /\ Fires(itemName, j)) => j < ruleIdx

(* C23: in every result unit is the canonical unit of the winning rule
   and formatted is "$", the two-decimal amount, "/" and that unit, and
   the amount shown in formatted equals the unitPrice field.  unitPrice
   is Math.round(unitPrice * 100) / 100 and the amount is
   unitPrice.toFixed(2) of the quotient that was not rounded: at a
   half-cent tie such as 9.76 / 32 the product is rounded up to 0.31 and
   toFixed gives "0.30". *)
C23_FormattedIsUnitPrice ==
  (Done /\ ~result.isNull) =>
    /\ result.unit = UNIT_MAPPINGS[ruleIdx].unit
    /\ result.formatted.unit = result.unit
    /\ result.formatted.amount = result.unitPrice

(* C24: the unit-price computation of the competitor scraper is the same
   as that of scraper.mjs: for every name and price, computeUnitPrice of
   the competitor scraper and computeUnitPrice of the Amazon scraper
   return equal results (the same unit, count, unitPrice and formatted,
   or both null).  The competitor scraper has the entries 'toilet paper'
   and 'paper towels' and, in part_000, the pack multiplier, which
   scraper.mjs has not. *)
C24_VariantsAgree ==
  \A i, j \in DOMAIN calls :
    (/\ calls[i].variant = "scraper"
     /\ calls[j].variant # "scraper"
     /\ calls[i].name = calls[j].name) => calls[i].result = calls[j].result

(* C25: the result of computeUnitPrice does not depend on letter case: in
   each variant, for every name and price, the result for the name equals
   the result for the name in upper case and in lower case.  The seeds
   callback of competitor-scraper.mjs tests m[0].includes('lb') on the
   match as written, so "2 LBS" is not converted and "2 lbs" is. *)
C25_CaseInsensitive ==
  \A i, j \in DOMAIN calls :
    calls[i].variant = calls[j].variant => calls[i].result = calls[j].result

(* C26: scrapeItem of the Walmart and Costco scrapers retries once on
   failure: _scrapeSearch is invoked at most twice per item, the second
   time only if the first threw or returned no result, a successful first
   result is returned without a retry, and scrapeItem itself never throws
   whatever the two attempts do. *)
C26_RetryOnce ==
  run.at \in {"first", "returned"} /\ StoreKey(run) \in {"walmart", "costco"} =>
    /\ Len(run.tries) <= 2
    /\ Len(run.tries) = 2 => run.tries[1] \in {"null", "throw"}
    /\ (run.at = "returned" /\ Len(run.tries) >= 1 /\ run.tries[1] = "found") =>
         Len(run.tries) = 1 /\ run.result = "found"
    /\ run.at = "returned" =>
         /\ run.result # "throw"
         /\ run.tries # <<>> =>
              run.result = Caught(run.tries[Len(run.tries)])

\* both tries threw and scrapeItem has returned null
C26_Witness ==
  /\ run.at = "returned"
  /\ StoreKey(run) = "walmart"
  /\ run.tries = <<"throw", "throw">>
  /\ run.result = "null"

(* C27: if the connection to Chrome over CDP fails while Costco is among
   the selected stores, Costco is merely skipped: the item loop counts
   no error for Costco, the cleanup closes every scraper that was
   initialized and the browser, and the run reaches its final summary
   with an exit code that depends only on the errors of the other stores.
   The loops run over activeStores, which still holds 'costco', and
   scrapers.costco is undefined. *)
C27_CostcoSkipped ==
  (run.program = "stores" /\ ~run.cdp /\ "costco" \in Range(run.active)) =>
    /\ run.costcoErrors = 0
    /\ run.at = "exit" =>
         /\ run.closed = run.scrapers
         /\ run.browser # "open"
         /\ run.summary
         /\ run.exit = IF run.errorCount - run.costcoErrors > 0 THEN "1" ELSE "0"

\* the alternatives marked recommended, as positions
Recommended == {i \in DOMAIN run.alternatives : run.alternatives[i].recommended}

(* C28: after the unit-price re-evaluation of the scraper an alternative
   is marked recommended only if its computed unit is the computed unit
   of the subscribed item and its computed unit price is strictly lower
   than the item's; at most one alternative is marked, and it is the one
   with the lowest unit price.  The code compares the unit prices and
   never the units. *)
C28_RecommendedSameUnit ==
  (run.program = "recommend" /\ run.at = "done" /\ run.reevaluated) =>
    /\ \A i \in Recommended :
         /\ run.alternatives[i].hasComputed
         /\ run.alternatives[i].computedUnit = run.computed.unit
         /\ run.alternatives[i].computedUnitPriceNum < run.computed.unitPrice
    /\ Cardinality(Recommended) <= 1
    /\ \A i \in Recommended : \A j \in AltsWithUnit(run.alternatives) :
         run.alternatives[i].computedUnitPriceNum
           <= run.alternatives[j].computedUnitPriceNum

\* the changes of a recorded action status the claim allows
ActionMoves ==
  {<<"pending", "running">>, <<"running", "done">>, <<"running", "error">>}

\* the recorded statuses are those of actions executed one at a time in
\* list order: finished ones, then at most one running, then pending ones
InListOrder(actions) ==
  \A k \in DOMAIN actions :
    actions[k] # "pending" =>
      \A j \in 1..(k - 1) : actions[j] \in {"done", "error"}

(* C29: in a non-dry run of the implementer the recorded status of each
   action only moves pending -> running -> done or error, the actions
   are executed one at a time in list order, and when the run writes its
   final status (the status with completedAt) every action is done or
   error, completed equals total, and the overall status is 'error'
   exactly when every action failed.  The critical error path writes a
   final status too. *)
C29_ActionStatuses ==
  run.program = "implement" =>
    /\ run.moves \subseteq ActionMoves
    /\ InListOrder(run.stored.actions)
    /\ run.stored.completedAt =>
         /\ \A k \in DOMAIN run.stored.actions :
              run.stored.actions[k] \in {"done", "error"}
         /\ run.stored.completed = run.stored.total
         /\ run.stored.status = "error" <=>
              \A k \in DOMAIN run.stored.actions : run.stored.actions[k] = "error"

(* C30: the implementer executes a queued batch at most once: no action
   of the batch takes effect in two runs, sendQueue/status is set to
   'completed' only after every action of the batch has been attempted,
   a run that reads status 'completed' executes no action and writes
   nothing, and a --dry-run writes neither sendQueue/status nor
   implementStatus.  A run that ends on the critical error path leaves
   sendQueue/status as it was. *)
C30_BatchAtMostOnce ==
  run.program = "implement" =>
    /\ \A k \in 1..MaxActions : run.succeeded[k] <= 1
    /\ (run.queued = "pending" /\ run.sendQueue.status = "completed") =>
         \A k \in 1..NumActions(run) : run.attempted[k] >= 1
    /\ run.readCompleted => run.executed = 0 /\ ~run.wrote
    /\ run.dryRun => run.executed = 0 /\ ~run.wrote

====
